---- MODULE Spec2Model ----
(***************************************************************************)
(* EasyPySpin: the typed node store of VideoCapture (set_pyspin_value /    *)
(* get_pyspin_value / set / get), its grab / retrieve session, and the     *)
(* exposure bracketing of VideoCaptureEX.                                  *)
(*                                                                         *)
(* A Python value is a record [k |-> <type name>, v |-> <payload>].        *)
(* Float payloads are kept as integers (one unit = one step of the node),  *)
(* the type tag tells a float 3.0 from an int 3.                           *)
(***************************************************************************)
EXTENDS Integers, Sequences, FiniteSets, TLC

VARIABLES
    nodes,                          \* device: node name -> current value payload
    cam,                            \* "none" (no _cam attribute) or "valid"
    streaming,                      \* device: cam.IsStreaming()
    pyspin_image,                   \* self._pyspin_image: NoImage or a grabbed image
    held,                           \* native image buffers obtained and not yet released
    auto_software_trigger_execute,  \* self.auto_software_trigger_execute
    grabTimeout,                    \* self.grabTimeout: "infinite" or "finite"
    average_num,                    \* VideoCaptureEX.__average_num
    exceptionMode,                  \* the process-wide filter for EasyPySpinWarning
    access,                         \* device: node name -> access mode "RW", "RO", "WO", "NA"
    cap2,                           \* a second VideoCapture, on another camera
    bracket,                        \* the readExposureBracketing one thread is inside of
    hdr,                            \* a mergeHDR call: its arguments, then what it returned
    last                            \* the last call: its name, what it returned, its diagnostics

vars == <<nodes, cam, streaming, pyspin_image, held, auto_software_trigger_execute,
          grabTimeout, average_num, exceptionMode, access, cap2, bracket, hdr, last>>

----------------------------------------------------------------------------
(* Bounds of the model *)

\* longest exposure list handed to readExposureBracketing
MaxExposures == 2

\* largest average_num the model assigns
MaxAverage == 2

----------------------------------------------------------------------------
(* Python values *)

V(k, v) == [k |-> k, v |-> v]

None == V("NoneType", 0)

PyFalse == V("bool", FALSE)

PyTrue == V("bool", TRUE)

PyInt(i) == V("int", i)

PyFloat(x) == V("float", x)

PyStr(s) == V("str", s)

\* a numpy array: only its size and, for one element, what item() gives matter
NdArray(size, item) == [k |-> "ndarray", v |-> 0, size |-> size, item |-> item]

----------------------------------------------------------------------------
(* The device: the nodes of the opened camera *)

EnumNodes == {"TriggerSelector", "TriggerMode", "TriggerSource", "ExposureAuto", "GainAuto"}

FloatNodes == {"ExposureTime", "Gain", "DeviceTemperature", "Gamma"}

IntegerNodes == {"Width"}

BooleanNodes == {"GammaEnable", "V3_3Enable"}

\* nodes with a value (SetValue / GetValue)
ValueNodes == EnumNodes \cup FloatNodes \cup IntegerNodes \cup BooleanNodes

\* a command node: it has Execute, and neither SetValue nor GetValue
CommandNodes == {"TriggerSoftware"}

\* hasattr(self.cam, node_name)
CamAttributes == ValueNodes \cup CommandNodes

\* a name that is no attribute of CameraPtr
UnknownNames == {"hoge"}

NodeNames == CamAttributes \cup UnknownNames

NodeKind(n) ==
    IF n \in EnumNodes THEN "IEnumeration"
    ELSE IF n \in FloatNodes THEN "IFloat"
    ELSE IF n \in IntegerNodes THEN "IInteger"
    ELSE IF n \in BooleanNodes THEN "IBoolean"
    ELSE "ICommand"

\* the module constants PySpin.<node>_<symbol>: hasattr(PySpin, name) and its value
PySpinEnum ==
    [TriggerSelector |-> [AcquisitionStart |-> 0, FrameStart |-> 1],
     TriggerMode     |-> [Off |-> 0, On |-> 1],
     TriggerSource   |-> [Software |-> 0, Line0 |-> 1, Line3 |-> 4],
     ExposureAuto    |-> [Off |-> 0, Continuous |-> 2],
     GainAuto        |-> [Off |-> 0, Continuous |-> 2]]

\* the codes this camera accepts; SetValue of any other code raises SpinnakerException
Entries(n) ==
    CASE n = "TriggerSelector" -> {0, 1}
      [] n = "TriggerMode"     -> {0, 1}
      [] n = "TriggerSource"   -> {0, 1}
      [] n = "ExposureAuto"    -> {0, 2}
      [] n = "GainAuto"        -> {0, 2}

\* node.GetMin()
GetMin(n) ==
    CASE n = "ExposureTime"      -> 2
      [] n = "Gain"              -> 0
      [] n = "DeviceTemperature" -> 0
      [] n = "Width"             -> 1
      [] n = "Gamma"             -> 1

\* node.GetMax()
GetMax(n) ==
    CASE n = "ExposureTime"      -> 3
      [] n = "Gain"              -> 1
      [] n = "DeviceTemperature" -> 1
      [] n = "Width"             -> 2
      [] n = "Gamma"             -> 2

\* PySpin.IsReadable(node)
IsReadable(n) == n \in ValueNodes /\ access[n] \in {"RW", "RO"}

\* PySpin.IsWritable(node)
\* a set_pyspin_value without the IsWritable check
IsWritable_unchecked(n) == n \in ValueNodes

IsWritable(n) == n \in ValueNodes /\ access[n] \in {"RW", "WO"}

\* what node.GetValue() gives for a stored payload
GetValue(n, payload) ==
    CASE NodeKind(n) = "IEnumeration" -> PyInt(payload)
      [] NodeKind(n) = "IInteger"     -> PyInt(payload)
      [] NodeKind(n) = "IFloat"       -> PyFloat(payload)
      [] NodeKind(n) = "IBoolean"     -> V("bool", payload)

\* the values a node of the device can hold
NodeDomain(n) ==
    CASE NodeKind(n) = "IEnumeration" -> Entries(n)
      [] NodeKind(n) = "IBoolean"     -> BOOLEAN
      [] OTHER                        -> GetMin(n)..GetMax(n)

----------------------------------------------------------------------------
(* The state of one VideoCapture object and its camera, as one record, so    *)
(* that a method is an operator from a state to a result                     *)

\* no attribute _pyspin_image yet
NoImage == [exists |-> FALSE, complete |-> FALSE, exposure |-> 0]

\* the image GetNextImage returned: whether it is complete, and the ExposureTime
\* the device held when it was taken
Image(complete, exposure) == [exists |-> TRUE, complete |-> complete, exposure |-> exposure]

\* grabs counts the GetNextImage calls of the running call (it numbers the frames
\* the environment delivers to it); sets lists the node names the running call
\* has called set_pyspin_value with; pending counts the software triggers fired
\* since the last wait for an image, log keeps for every wait of the running call
\* how many triggers were fired for it and the settings it was made under;
\* begins counts the BeginAcquisition calls of the running call; ends holds,
\* for each of its EndAcquisition calls, whether the camera was streaming
Cur ==
    [nodes |-> nodes, cam |-> cam, streaming |-> streaming, image |-> pyspin_image,
     held |-> held, flag |-> auto_software_trigger_execute, grabTimeout |-> grabTimeout,
     average_num |-> average_num, filter |-> exceptionMode, grabs |-> 0, sets |-> <<>>,
     pending |-> 0, log |-> <<>>, begins |-> 0, ends |-> <<>>]

\* a method's outcome: the state it leaves, what it returns, the exception that
\* left it (or "none"), the warnings it emitted
\* (out is the second element of a returned pair)
Result(c, ret, exc, diag) == [c |-> c, ret |-> ret, exc |-> exc, diag |-> diag, out |-> None]

\* the place of a return value when the call raised
NoReturn == V("raised", 0)

Return(c, ret) == Result(c, ret, "none", {})

Raise(c, exc, diag) == Result(c, NoReturn, exc, diag)

\* a filter that never turns a warning into an exception
WarnRaises_never(c) == FALSE

\* warnings.warn under the filter in force: "error" turns the warning into an exception
WarnRaises(c) == c.filter = "error"

\* warn(message) followed by `return ret`
warn(c, message, ret) ==
    IF WarnRaises(c) THEN Raise(c, "EasyPySpinWarning", {message})
    ELSE Result(c, ret, "none", {message})

isOpened(c) == c.cam = "valid"

----------------------------------------------------------------------------
(* VideoCapture.set_pyspin_value *)

\* value.item() of a numpy array with one element
ConvertNdArray(value) ==
    IF value.k = "ndarray" /\ value.size = 1 THEN value.item ELSE value

\* one type check for both numeric kinds: an Integer node takes a float
TypeRefused_numeric(kind, value_type) ==
    CASE kind = "IInteger"     -> value_type \notin {"int", "float"}
      [] kind = "IFloat"       -> value_type \notin {"int", "float"}
      [] kind = "IBoolean"     -> value_type # "bool"
      [] kind = "IEnumeration" -> value_type \notin {"str", "int"}

\* the type check of each node kind: TRUE when the value's type is refused
TypeRefused(kind, value_type) ==
    CASE kind = "IInteger"     -> value_type # "int"
      [] kind = "IFloat"       -> value_type \notin {"int", "float"}
      [] kind = "IBoolean"     -> value_type # "bool"
      [] kind = "IEnumeration" -> value_type \notin {"str", "int"}

\* hasattr(PySpin, f"{node_name}_{value}")
HasEnumeration(node_name, symbol) == symbol \in DOMAIN PySpinEnum[node_name]

\* max(value, v_min): the upper bound forgotten
Clip_lower(value, v_min, v_max) ==
    IF value > v_min THEN value ELSE v_min

\* min(max(value, v_min), v_max)
Clip(value, v_min, v_max) ==
    LET lower == IF value > v_min THEN value ELSE v_min
    IN  IF lower < v_max THEN lower ELSE v_max

\* node.SetValue(value): the device refuses a code that is none of its entries
SetValueRaises(node_name, payload) ==
    NodeKind(node_name) = "IEnumeration" /\ payload \notin Entries(node_name)

\* the part of set_pyspin_value after the checks: clip, then SetValue
ClipAndSetValue(c, node_name, payload) ==
    LET numeric == NodeKind(node_name) \in {"IInteger", "IFloat"}
        value_clipped == IF numeric
                         THEN Clip(payload, GetMin(node_name), GetMax(node_name))
                         ELSE payload
        clipWarn == IF numeric /\ value_clipped # payload THEN {"clipped"} ELSE {}
    IN  IF clipWarn # {} /\ WarnRaises(c)
        THEN Raise(c, "EasyPySpinWarning", clipWarn)
        ELSE IF SetValueRaises(node_name, value_clipped)
        THEN LET r == warn(c, "SpinnakerException", PyFalse)
             IN  [r EXCEPT !.diag = clipWarn \cup @]
        ELSE Result([c EXCEPT !.nodes[node_name] = value_clipped], PyTrue, "none", clipWarn)

\* a name PySpin does not know falls back to the node's first entry, silently
SetEnumerationName_default(c, node_name, symbol) ==
    ClipAndSetValue(c, node_name,
                    IF HasEnumeration(node_name, symbol) THEN PySpinEnum[node_name][symbol]
                    ELSE 0)

\* a str for an Enumeration node: replaced by PySpin's constant of that name
SetEnumerationName(c, node_name, symbol) ==
    IF HasEnumeration(node_name, symbol)
    THEN ClipAndSetValue(c, node_name, PySpinEnum[node_name][symbol])
    ELSE warn(c, "no enumeration", PyFalse)

CheckAndSetValue(c, node_name, value) ==
    IF ~isOpened(c) THEN warn(c, "Camera is not open", PyFalse)
    ELSE IF node_name \notin CamAttributes THEN warn(c, "no attribute", PyFalse)
    ELSE IF node_name \notin ValueNodes THEN warn(c, "no attribute SetValue", PyFalse)
    ELSE IF ~IsWritable(node_name) THEN warn(c, "not writable", PyFalse)
    ELSE
        LET kind == NodeKind(node_name)
            v1 == ConvertNdArray(value)
        IN  IF TypeRefused(kind, v1.k) THEN warn(c, "value type", PyFalse)
            ELSE IF kind = "IEnumeration" /\ v1.k = "str"
            THEN SetEnumerationName(c, node_name, v1.v)
            ELSE ClipAndSetValue(c, node_name, v1.v)

set_pyspin_value(c, node_name, value) ==
    CheckAndSetValue([c EXCEPT !.sets = Append(@, node_name)], node_name, value)

----------------------------------------------------------------------------
(* VideoCapture.get_pyspin_value *)

\* a get_pyspin_value that answers None for a missing node without a warning
get_pyspin_value_silent(c, node_name) ==
    IF ~isOpened(c) THEN warn(c, "Camera is not open", PyFalse)
    ELSE IF node_name \notin ValueNodes THEN Return(c, None)
    ELSE IF ~IsReadable(node_name) THEN warn(c, "not readable", None)
    ELSE Return(c, GetValue(node_name, c.nodes[node_name]))

get_pyspin_value(c, node_name) ==
    IF ~isOpened(c) THEN warn(c, "Camera is not open", PyFalse)
    ELSE IF node_name \notin CamAttributes THEN warn(c, "no attribute", None)
    ELSE IF node_name \notin ValueNodes THEN warn(c, "no attribute GetValue", None)
    ELSE IF ~IsReadable(node_name) THEN warn(c, "not readable", None)
    ELSE Return(c, GetValue(node_name, c.nodes[node_name]))

----------------------------------------------------------------------------
(* Sequencing of calls inside a method *)

\* r, then the call that ended as next on the state r left (r.c), unless r
\* raised; the warnings add up
Then(r, next) ==
    IF r.exc # "none" THEN r
    ELSE [next EXCEPT !.diag = r.diag \cup @]

----------------------------------------------------------------------------
(* VideoCapture.__del__ / release / open *)

\* __del__ called as a method: ends the acquisition and deletes self._cam;
\* self._pyspin_image is not touched
release(c) ==
    IF c.cam # "none"
    THEN Return([c EXCEPT !.cam = "none", !.streaming = FALSE], None)
    ELSE Return(c, None)

\* index <= num_cam: one index too many
IndexInRange_inclusive(index, num_cam) == index.v \in 0..num_cam

\* the camera list of the system: num_cam cameras, the first has serial "serial0"
IndexInRange(index, num_cam) == index.v \in 0..(num_cam - 1)

open(c, index, num_cam) ==
    LET c0 == release(c).c
    IN  IF num_cam = 0 THEN warn(c0, "no camera is available", PyFalse)
        ELSE IF index.k = "int"
        THEN IF IndexInRange(index, num_cam)
             THEN Return([c0 EXCEPT !.cam = "valid"], PyTrue)
             ELSE warn(c0, "out device of bound", PyFalse)
        ELSE IF index.k = "str"
        THEN IF index.v = "serial0"
             THEN Return([c0 EXCEPT !.cam = "valid"], PyTrue)
             ELSE Return(c0, PyFalse)        \* not self._cam.IsValid()
        ELSE warn(c0, "index must be int or str", PyFalse)

----------------------------------------------------------------------------
(* VideoCapture.grab / retrieve / read *)

\* what the wait for the next image can end in
GrabOutcomes == {"complete", "incomplete", "timeout"}

\* the frames the environment delivers to one call: the at-th GetNextImage of the
\* call ends in kind, every other one delivers a complete image
NoFault == [at |-> 0, kind |-> "complete"]

Outcome(plan, k) == IF plan.at = k THEN plan.kind ELSE "complete"

\* PySpin.IsAvailable(self.cam.TriggerSoftware)
TriggerSoftwareAvailable(c) ==
    /\ c.nodes["TriggerMode"] = PySpinEnum["TriggerMode"]["On"]
    /\ c.nodes["TriggerSource"] = PySpinEnum["TriggerSource"]["Software"]

\* self._pyspin_image = image: the image bound before loses its last reference
\* and gives its buffer back
BindImage(c, image) ==
    [c EXCEPT !.image = image,
              !.held = (IF c.image.exists THEN @ - 1 ELSE @) + 1]

\* a grab that fires the trigger whenever the camera offers it
ExecuteTrigger_available(c) == TriggerSoftwareAvailable(c)

\* the condition under which grab executes the software trigger
ExecuteTrigger(c) == TriggerSoftwareAvailable(c) /\ c.flag

\* self.cam.TriggerSoftware.Execute()
TriggerSoftwareExecute(c) == [c EXCEPT !.pending = @ + 1]

\* self.cam.GetNextImage(self.grabTimeout, self.streamID) starts to wait
GetNextImage(c) ==
    [c EXCEPT !.pending = 0,
              !.log = Append(@, [fired |-> c.pending, nodes |-> c.nodes, flag |-> c.flag])]

\* a grab that begins the acquisition at every call
NotStreaming_always(c) == TRUE

\* not self.cam.IsStreaming()
NotStreaming(c) == ~c.streaming

\* self.cam.BeginAcquisition()
BeginAcquisition(c) == [c EXCEPT !.streaming = TRUE, !.begins = @ + 1]

grab(c, plan) ==
    IF ~isOpened(c) THEN Return(c, PyFalse)
    ELSE
        LET k == c.grabs + 1
            c0 == [(IF NotStreaming(c) THEN BeginAcquisition(c) ELSE c) EXCEPT !.grabs = k]
            c1 == GetNextImage(IF ExecuteTrigger(c0) THEN TriggerSoftwareExecute(c0) ELSE c0)
            outcome == Outcome(plan, k)
        IN  IF outcome = "timeout"
            THEN Raise(c1, "SpinnakerException", {})      \* GetNextImage raises
            ELSE LET complete == (outcome = "complete")
                     image == Image(complete, c1.nodes["ExposureTime"])
                 IN  Return(BindImage(c1, image), V("bool", complete))

\* image.GetNDArray(): the frame remembers the image it was decoded from
\* (n: the number of images behind the frame)
Frame(image) ==
    [k |-> "ndarray", v |-> image.exposure, complete |-> image.complete, n |-> 1]

retrieve(c) ==
    IF c.image.exists
    THEN [Return(c, PyTrue) EXCEPT !.out = Frame(c.image)]
    ELSE Return(c, PyFalse)

\* retval = self.grab(); return self.retrieve() if retval else (False, None)
Retrieved(g) ==
    IF g.exc # "none" THEN g
    ELSE IF g.ret = PyTrue THEN retrieve(g.c)
    ELSE Return(g.c, PyFalse)

read(c, plan) == Retrieved(grab(c, plan))

----------------------------------------------------------------------------
(* VideoCapture.set, for the property identifiers the model uses *)

PropIds == {"CAP_PROP_EXPOSURE", "CAP_PROP_GAIN", "CAP_PROP_FRAME_WIDTH",
            "CAP_PROP_TRIGGER", "CAP_PROP_ZOOM"}

\* is_success1 and is_success2
And(r1, r2) == IF r1.ret = PyTrue THEN r2.ret ELSE r1.ret

\* the two-step properties: value != -1 switches the auto node Off and sets the
\* value node; -1 switches the auto node to Continuous
\* return is_success1 and is_success2
ReturnAnd(r1, r2) ==
    Then(r1, IF r2.exc # "none" THEN r2 ELSE [r2 EXCEPT !.ret = And(r1, r2)])

\* a second set that is skipped when the first returned False
SetValueNode_skipped(r1, value_node, value) ==
    IF r1.exc = "none" /\ r1.ret # PyTrue THEN r1
    ELSE ReturnAnd(r1, set_pyspin_value(r1.c, value_node, value))

\* the second set follows the first whatever the first returned
SetValueNode(r1, value_node, value) ==
    ReturnAnd(r1, set_pyspin_value(r1.c, value_node, value))

SetManualOrAuto(c, auto_node, value_node, value) ==
    IF value.k \in {"int", "float"} /\ value.v = -1
    THEN set_pyspin_value(c, auto_node, PyStr("Continuous"))
    ELSE SetValueNode(set_pyspin_value(c, auto_node, PyStr("Off")), value_node, value)

set(c, propId, value) ==
    CASE propId = "CAP_PROP_FRAME_WIDTH" -> set_pyspin_value(c, "Width", value)
      [] propId = "CAP_PROP_GAIN"        -> SetManualOrAuto(c, "GainAuto", "Gain", value)
      [] propId = "CAP_PROP_EXPOSURE"    ->
            SetManualOrAuto(c, "ExposureAuto", "ExposureTime", value)
      [] propId = "CAP_PROP_GAMMA"       ->
            SetValueNode(set_pyspin_value(c, "GammaEnable", PyTrue), "Gamma", value)
      [] propId = "CAP_PROP_TRIGGER"     ->
            IF value.k # "bool" THEN warn(c, "value must be bool", PyFalse)
            ELSE set_pyspin_value(c, "TriggerMode",
                                  PyStr(IF value.v THEN "On" ELSE "Off"))
      [] OTHER                           -> warn(c, "not supported", PyFalse)

----------------------------------------------------------------------------
(* VideoCapture.get, for the property identifiers the model uses *)

\* CAP_PROP_TEMPERATURE is a property of get only
GetPropIds == PropIds \cup {"CAP_PROP_TEMPERATURE"}

\* Python's value == code for an int code: False equals 0 and True equals 1
EqualsCode(value, code) ==
    \/ value.k \in {"int", "float"} /\ value.v = code
    \/ value.k = "bool" /\ value.v = (code = 1) /\ code \in {0, 1}

\* trigger_mode == TriggerMode_Off -> False, == TriggerMode_On -> True, else as read
TriggerAsBool(t) ==
    IF t.exc # "none" THEN t
    ELSE IF EqualsCode(t.ret, PySpinEnum["TriggerMode"]["Off"]) THEN [t EXCEPT !.ret = PyFalse]
    ELSE IF EqualsCode(t.ret, PySpinEnum["TriggerMode"]["On"]) THEN [t EXCEPT !.ret = PyTrue]
    ELSE t

\* a get that answers False for an unsupported property without a warning
get_silent(c, propId) ==
    CASE propId = "CAP_PROP_FRAME_WIDTH"  -> get_pyspin_value(c, "Width")
      [] propId = "CAP_PROP_GAIN"         -> get_pyspin_value(c, "Gain")
      [] propId = "CAP_PROP_EXPOSURE"     -> get_pyspin_value(c, "ExposureTime")
      [] propId = "CAP_PROP_GAMMA"        -> get_pyspin_value(c, "Gamma")
      [] propId = "CAP_PROP_TEMPERATURE"  -> get_pyspin_value(c, "DeviceTemperature")
      [] propId = "CAP_PROP_TRIGGER"      -> TriggerAsBool(get_pyspin_value(c, "TriggerMode"))
      [] OTHER                            -> Return(c, PyFalse)

get(c, propId) ==
    CASE propId = "CAP_PROP_FRAME_WIDTH"  -> get_pyspin_value(c, "Width")
      [] propId = "CAP_PROP_GAIN"         -> get_pyspin_value(c, "Gain")
      [] propId = "CAP_PROP_EXPOSURE"     -> get_pyspin_value(c, "ExposureTime")
      [] propId = "CAP_PROP_GAMMA"        -> get_pyspin_value(c, "Gamma")
      [] propId = "CAP_PROP_TEMPERATURE"  -> get_pyspin_value(c, "DeviceTemperature")
      [] propId = "CAP_PROP_TRIGGER"      -> TriggerAsBool(get_pyspin_value(c, "TriggerMode"))
      [] OTHER                            -> warn(c, "not supported", PyFalse)

----------------------------------------------------------------------------
(* VideoCaptureEX.read: the average of average_num images *)

\* np.mean of the n images of one read (all taken at one exposure time)
Averaged(frame, n) == [frame EXCEPT !.n = n]

\* ret = super().grab(); if not ret: return False, None; else what follows
IfGrabbed(g, following) ==
    IF g.exc # "none" THEN g
    ELSE IF g.ret # PyTrue THEN Return(g.c, PyFalse)
    ELSE following

RECURSIVE AverageLoop(_, _, _)
\* the body of `for i in range(average_num)` after the retrieve r, and the return
\* of the mean after the last one
AverageNext(r, plan, i) ==
    IF i + 1 = r.c.average_num
    THEN [r EXCEPT !.out = Averaged(r.out, r.c.average_num)]
    ELSE AverageLoop(r.c, plan, i + 1)

AverageGrabbed(g, plan, i) == IfGrabbed(g, AverageNext(retrieve(g.c), plan, i))

\* for i in range(average_num): grab, return at the first failure, retrieve
AverageLoop(c, plan, i) == AverageGrabbed(grab(c, plan), plan, i)

ReadGrabbed(g) == IfGrabbed(g, retrieve(g.c))

readEX(c, plan) ==
    IF c.average_num = 1
    THEN ReadGrabbed(grab(c, plan))
    ELSE AverageLoop(c, plan, 0)

----------------------------------------------------------------------------
(* VideoCaptureEX.readExposureBracketing *)

node_names_to_change ==
    <<"TriggerSelector", "TriggerMode", "TriggerSource",
      "ExposureTime", "ExposureAuto", "GainAuto">>

\* the number of dummy images read before the first capture
DummyImages == 3

\* the value r returned put behind the list rest returned: the list reversed
Cons_reversed(r, rest) ==
    Then(r, IF rest.exc # "none" THEN rest ELSE [rest EXCEPT !.out = @ \o <<r.ret>>])

\* the list with the value r returned in front of the list rest returned
Cons(r, rest) ==
    Then(r, IF rest.exc # "none" THEN rest ELSE [rest EXCEPT !.out = <<r.ret>> \o @])

RECURSIVE GetAll(_, _, _)
GetRest(r, names, i) == Cons(r, GetAll(r.c, names, i + 1))

\* [self.get_pyspin_value(node_name) for node_name in names]: out is the list
GetAll(c, names, i) ==
    IF i > Len(names) THEN [Return(c, None) EXCEPT !.out = <<>>]
    ELSE GetRest(get_pyspin_value(c, names[i]), names, i)

RECURSIVE SetAll(_, _, _, _)
SetRest(r, names, values, i) == Then(r, SetAll(r.c, names, values, i + 1))

\* for node_name, value in zip(names, values): self.set_pyspin_value(node_name, value)
\* (the result of each set is dropped)
SetAll(c, names, values, i) ==
    IF i > Len(names) THEN Return(c, None)
    ELSE SetRest(set_pyspin_value(c, names[i], values[i]), names, values, i)

RECURSIVE DummyReads(_, _, _)
DummyRest(r, plan, n) == Then(r, DummyReads(r.c, plan, n - 1))

\* for _ in range(n): self.read()   (what each read returned is dropped)
DummyReads(c, plan, n) ==
    IF n = 0 THEN Return(c, None)
    ELSE DummyRest(readEX(c, plan), plan, n)

RECURSIVE CaptureLoop(_, _, _, _, _)
\* ret, frame = self.read(); if not ret: return False, None; imlist.append(frame)
AfterRead(r, exposures, plan, i, imlist) ==
    IF r.exc # "none" THEN r
    ELSE IF r.ret # PyTrue THEN [r EXCEPT !.ret = PyFalse, !.out = None]
    ELSE Then(r, CaptureLoop(r.c, exposures, plan, i + 1, Append(imlist, r.out)))

AfterDummy(d, exposures, plan, i, imlist) ==
    AfterRead(Then(d, readEX(d.c, plan)), exposures, plan, i, imlist)

\* dummy images read after every exposure time that is set
AfterSet_each(s, exposures, plan, i, imlist) ==
    AfterDummy(Then(s, DummyReads(s.c, plan, DummyImages)), exposures, plan, i, imlist)

\* the dummy images, read after the first exposure time is set only
AfterSet(s, exposures, plan, i, imlist) ==
    AfterDummy(Then(s, IF i = 1 THEN DummyReads(s.c, plan, DummyImages)
                                ELSE Return(s.c, None)),
               exposures, plan, i, imlist)

\* the loop over the exposures; imlist holds the frames appended so far.
\* ret = False: a read failed and the method returned (False, None)
CaptureLoop(c, exposures, plan, i, imlist) ==
    IF i > Len(exposures) THEN [Return(c, PyTrue) EXCEPT !.out = imlist]
    ELSE AfterSet(set(c, "CAP_PROP_EXPOSURE", PyFloat(exposures[i])),
                  exposures, plan, i, imlist)

\* self.cam.EndAcquisition(): no camera object, or a camera that is not streaming
EndAcquisition(c) ==
    IF c.cam = "none" THEN Raise(c, "AttributeError", {})
    ELSE IF ~c.streaming
         THEN Raise([c EXCEPT !.ends = Append(@, FALSE)], "SpinnakerException", {})
    ELSE Return([c EXCEPT !.streaming = FALSE, !.ends = Append(@, TRUE)], None)

\* the settings forced before the capture: trigger, then the flag, then the gain
\* a fixing of the gain that writes the largest gain instead of the one read
FixGain_max(g) ==
    Then(g, SetAll(g.c, <<"GainAuto", "Gain">>, <<PyStr("Off"), PyFloat(GetMax("Gain"))>>, 1))

FixGain(g) == Then(g, SetAll(g.c, <<"GainAuto", "Gain">>, <<PyStr("Off"), g.ret>>, 1))

ReadGain(f) == FixGain(Then(f, get_pyspin_value(f.c, "Gain")))

SetFlag(t, b) == Then(t, Return([t.c EXCEPT !.flag = b], None))

\* a change of the settings that leaves auto_software_trigger_execute as found
ChangeSettings_flag(c) ==
    ReadGain(SetAll(c, <<"TriggerSelector", "TriggerMode", "TriggerSource">>,
                    <<PyStr("FrameStart"), PyStr("On"), PyStr("Software")>>, 1))

ChangeSettings(c) ==
    ReadGain(SetFlag(SetAll(c, <<"TriggerSelector", "TriggerMode", "TriggerSource">>,
                            <<PyStr("FrameStart"), PyStr("On"), PyStr("Software")>>, 1),
                     TRUE))

\* a restore of the nodes that leaves auto_software_trigger_execute as forced
RestoreSettings_nodes(c, values_origin, flag_origin) ==
    SetAll(c, node_names_to_change, values_origin, 1)

\* the restore after the capture loop
RestoreSettings(c, values_origin, flag_origin) ==
    SetFlag(SetAll(c, node_names_to_change, values_origin, 1), flag_origin)

\* return True, imlist
ReturnList(restored, imlist) ==
    IF restored.exc # "none" THEN restored
    ELSE [restored EXCEPT !.ret = PyTrue, !.out = imlist]

Restore(ended, values_origin, flag_origin, imlist) ==
    ReturnList(Then(ended, RestoreSettings(ended.c, values_origin, flag_origin)), imlist)

\* after the capture loop: a failed read has returned (False, None) from the
\* method; otherwise EndAcquisition, the restore, and the list
AfterCapture(captured, values_origin, flag_origin) ==
    IF captured.exc # "none" \/ captured.ret # PyTrue THEN captured
    ELSE Restore(Then(captured, EndAcquisition(captured.c)),
                 values_origin, flag_origin, captured.out)

Capture(changed, values_origin, flag_origin, exposures, plan) ==
    AfterCapture(Then(changed, CaptureLoop(changed.c, exposures, plan, 1, <<>>)),
                 values_origin, flag_origin)

Change(origin, flag_origin, exposures, plan) ==
    Capture(Then(origin, ChangeSettings(origin.c)), origin.out, flag_origin, exposures, plan)

readExposureBracketing(c, exposures, plan) ==
    Change(GetAll(c, node_names_to_change, 1), c.flag, exposures, plan)

----------------------------------------------------------------------------
(* float64 as mergeHDR uses it: values that are never negative, kept to four
   significant decimal digits, with the range of binary64 *)

\* m * 10^e with 1000 <= m <= 9999, or zero
Fin(m, e) == [k |-> "fin", m |-> m, e |-> e]

Zero == Fin(0, 0)

Inf == [k |-> "inf", m |-> 0, e |-> 0]

NaN == [k |-> "nan", m |-> 0, e |-> 0]

\* the largest binary64 is 1.797e308
MaxExp10 == 308

MaxMantissa == 1797

\* below the smallest subnormal, 4.9e-324, a result is rounded to zero
MinExp10 == -324

RECURSIVE Round(_, _)
\* the float64 nearest to m * 10^e: Inf above the range, zero below it
Round(m, e) ==
    IF m = 0 THEN Zero
    ELSE IF m >= 10000 THEN Round((m + 5) \div 10, e + 1)
    ELSE IF m < 1000 THEN Round(m * 10, e - 1)
    ELSE IF e + 3 > MaxExp10 \/ (e + 3 = MaxExp10 /\ m > MaxMantissa) THEN Inf
    ELSE IF e + 3 < MinExp10 THEN Zero
    ELSE Fin(m, e)

RECURSIVE Pow10(_)
Pow10(n) == IF n = 0 THEN 1 ELSE 10 * Pow10(n - 1)

Mul(a, b) ==
    IF a.k = "nan" \/ b.k = "nan" THEN NaN
    ELSE IF a.k = "inf" \/ b.k = "inf" THEN (IF a = Zero \/ b = Zero THEN NaN ELSE Inf)
    ELSE Round(a.m * b.m, a.e + b.e)

\* x / 0 is Inf and 0 / 0 is NaN (numpy warns and goes on)
Div(a, b) ==
    IF a.k = "nan" \/ b.k = "nan" THEN NaN
    ELSE IF b = Zero THEN (IF a = Zero THEN NaN ELSE Inf)
    ELSE IF b.k = "inf" THEN (IF a.k = "inf" THEN NaN ELSE Zero)
    ELSE IF a.k = "inf" THEN Inf
    ELSE Round((a.m * 100000) \div b.m, a.e - b.e - 5)

\* the smaller term is lost when it lies beyond the digits kept
Add(a, b) ==
    IF a.k = "nan" \/ b.k = "nan" THEN NaN
    ELSE IF a.k = "inf" \/ b.k = "inf" THEN Inf
    ELSE IF a = Zero THEN b
    ELSE IF b = Zero THEN a
    ELSE IF a.e - b.e > 4 THEN a
    ELSE IF b.e - a.e > 4 THEN b
    ELSE IF a.e >= b.e THEN Round(a.m * Pow10(a.e - b.e) + b.m, b.e)
    ELSE Round(b.m * Pow10(b.e - a.e) + a.m, a.e)

\* a <= b for finite values
LessEq(a, b) ==
    \/ a = Zero
    \/ b # Zero /\ (a.e < b.e \/ (a.e = b.e /\ a.m <= b.m))

----------------------------------------------------------------------------
(* VideoCaptureEX.mergeHDR, for images of one pixel *)

Zmin == Fin(1000, -5)

Zmax == Fin(9900, -4)

\* a merge whose weights are the Gaussian ones alone
epsilon_zero == Zero

epsilon == Fin(1000, -35)

\* the default of the parameter time_ref
time_ref == Fin(1000, 1)

\* the pixel values of the model: 0, 0.005, 0.25, 0.5, 0.995, 1
PixelValues ==
    {Zero, Fin(5000, -6), Fin(2500, -4), Fin(5000, -4), Fin(9950, -4), Fin(1000, -3)}

\* a pixel value in [0, 1] in units of 1e-4
ToFixed(z) ==
    IF z = Zero THEN 0
    ELSE IF z.e >= -4 THEN z.m * Pow10(z.e + 4)
    ELSE z.m \div Pow10(-4 - z.e)

\* np.exp(-4 * ((z - 0.5) / 0.5) ** 2), computed in units of 1e-4:
\* exp(-y) is the eighth power of the series of exp(-y / 8) up to its fifth term
Gauss(z) ==
    LET u  == 2 * (ToFixed(z) - 5000)
        x  == ((4 * u * u) \div 10000) \div 8
        x2 == (x * x) \div 10000
        x3 == (x2 * x) \div 10000
        x4 == (x3 * x) \div 10000
        x5 == (x4 * x) \div 10000
        p  == 10000 - x + x2 \div 2 - x3 \div 6 + x4 \div 24 - x5 \div 120
        p2 == (p * p) \div 10000
        p4 == (p2 * p2) \div 10000
    IN  Round((p4 * p4) \div 10000, -4)

\* mask = np.bitwise_and(Zmin <= z, z <= Zmax)
Mask(z) == LessEq(Zmin, z) /\ LessEq(z, Zmax)

\* w + epsilon
Weight(z) == Add(Mul(Gauss(z), IF Mask(z) THEN Fin(1000, -3) ELSE Zero), epsilon)

\* exposure times that are not divided by time_ref
Scaled_raw(times) == times

\* t = np.array(times) / time_ref
Scaled(times) == [i \in DOMAIN times |-> Div(times[i], time_ref)]

RECURSIVE WeightSum(_, _)
\* wgt.sum(axis=0) over the frames i..n
WeightSum(z, i) ==
    IF i > Len(z) THEN Zero ELSE Add(Weight(z[i]), WeightSum(z, i + 1))

RECURSIVE WeightedSum(_, _, _)
\* np.multiply(z / t, wgt).sum(axis=0) over the frames i..n
WeightedSum(z, t, i) ==
    IF i > Len(z) THEN Zero
    ELSE Add(Mul(Div(z[i], t[i]), Weight(z[i])), WeightedSum(z, t, i + 1))

ZeroDivisionError == [k |-> "ZeroDivisionError", m |-> 0, e |-> 0]

\* an average that is not divided by the sum of the weights
Average_sum(z, t) == WeightedSum(z, t, 1)

\* np.average(z / t, axis=0, weights=w + epsilon): weights that sum to zero raise
Average(z, t) ==
    IF WeightSum(z, 1) = Zero THEN ZeroDivisionError
    ELSE Div(WeightedSum(z, t, 1), WeightSum(z, 1))

\* the first exposure taken for the longest
MaxOf_first(t, i) == t[i]

RECURSIVE MaxOf(_, _)
MaxOf(t, i) ==
    IF i = Len(t) THEN t[i]
    ELSE IF LessEq(MaxOf(t, i + 1), t[i]) THEN t[i] ELSE MaxOf(t, i + 1)

\* the first exposure taken for the shortest
MinOf_first(t, i) == t[i]

RECURSIVE MinOf(_, _)
MinOf(t, i) ==
    IF i = Len(t) THEN t[i]
    ELSE IF LessEq(t[i], MinOf(t, i + 1)) THEN t[i] ELSE MinOf(t, i + 1)

under_exposed(z) == \A i \in DOMAIN z : ~LessEq(Zmin, z[i])

over_exposed(z) == \A i \in DOMAIN z : ~LessEq(z[i], Zmax)

\* the merge after t is computed
Merged(z, t) ==
    IF Average(z, t) = ZeroDivisionError THEN ZeroDivisionError
    ELSE IF over_exposed(z) THEN Div(Zmax, MinOf(t, 1))
    ELSE IF under_exposed(z) THEN Div(Zmin, MaxOf(t, 1))
    ELSE Average(z, t)

mergeHDR(imlist, times) == Merged(imlist, Scaled(times))

----------------------------------------------------------------------------
(* VideoCaptureEX.readHDR: the exposure times *)

\* most passes of the loop that counts the shots the model follows
MaxShots == 6

\* np.clip(t, v_min, v_max)
NpClip(t, v_min, v_max) ==
    IF ~LessEq(v_min, t) THEN v_min ELSE IF ~LessEq(t, v_max) THEN v_max ELSE t

\* np.clip(t, self.cam.ExposureTime.GetMin(), self.cam.ExposureTime.GetMax())
ClipExposure(t) ==
    NpClip(t, Round(GetMin("ExposureTime"), 0), Round(GetMax("ExposureTime"), 0))

OverflowError == [k |-> "OverflowError", m |-> 0, e |-> 0]

\* x * y for Python floats inside of **: a result above the range raises
Times(x, y) ==
    IF y = OverflowError THEN OverflowError
    ELSE IF Mul(x, y) = Inf /\ x # Inf THEN OverflowError
    ELSE Mul(x, y)

RECURSIVE Power(_, _)
\* ratio ** num
Power(ratio, num) ==
    IF num = 0 THEN Fin(1000, -3) ELSE Times(ratio, Power(ratio, num - 1))

\* t_max > t_min * (ratio ** num)
Exceeds(t_min, t_max, ratio, num) == ~LessEq(t_max, Mul(t_min, Power(ratio, num)))

\* the loop is not left after MaxShots passes
Unbounded == [k |-> "unbounded", m |-> 0, e |-> 0]

\* the loop is left with num shots
Shots(num) == [k |-> "int", m |-> num, e |-> 0]

RECURSIVE CountShots(_, _, _, _)
\* while t_max > t_min * (ratio ** num): num += 1
CountShots(t_min, t_max, ratio, num) ==
    IF num - 2 > MaxShots THEN Unbounded
    ELSE IF Power(ratio, num) = OverflowError THEN OverflowError
    ELSE IF Exceeds(t_min, t_max, ratio, num) THEN CountShots(t_min, t_max, ratio, num + 1)
    ELSE Shots(num)

\* a count that runs the loop for every ratio
NumShots_looped(t_min, t_max, ratio) == CountShots(t_min, t_max, ratio, 2)

\* num = 2; if ratio > 1.0: the loop
NumShots(t_min, t_max, ratio) ==
    IF ~LessEq(ratio, Fin(1000, -3)) THEN CountShots(t_min, t_max, ratio, 2) ELSE Shots(2)

RECURSIVE Bisect(_, _, _, _)
\* the largest f in units of 1e-4, lo <= f < hi, with f ** n <= x
Bisect(x, n, lo, hi) ==
    IF hi - lo <= 1 THEN lo
    ELSE LET mid == (lo + hi) \div 2
         IN  IF LessEq(Power(Round(mid, -4), n), x)
             THEN Bisect(x, n, mid, hi) ELSE Bisect(x, n, lo, mid)

\* x ** (1 / n) for 1e-4 <= x ** (1 / n) < 10, rounded to the nearest 1e-4
NthRoot(x, n) ==
    LET f == Bisect(x, n, 1, 100000)
    IN  IF LessEq(Mul(Power(Round(2 * f + 1, -4), n), Power(Fin(5000, -4), n)), x)
        THEN Round(f + 1, -4) ELSE Round(f, -4)

\* np.geomspace(start, stop, num=num): the ends are start and stop themselves
geomspace(start, stop, num) ==
    [k \in 1..num |->
        IF k = 1 THEN start
        ELSE IF k = num THEN stop
        ELSE Mul(start, Power(NthRoot(Div(stop, start), num - 1), k - 1))]

\* the count of shots and the exposure times of readHDR(t_min, t_max, ratio)
ShotsOf(t_min, t_max, ratio) == NumShots(ClipExposure(t_min), ClipExposure(t_max), ratio)

TimesOf(t_min, t_max, ratio) ==
    geomspace(ClipExposure(t_min), ClipExposure(t_max), ShotsOf(t_min, t_max, ratio).m)

\* readHDR: max_value = 2.0 ** 8 - 1 for images of dtype uint8
max_value == 255

\* image / max_value for a pixel of an 8-bit image
Normalized(v) == Div(Round(v, 0), Round(max_value, 0))

\* an exposure time as the ExposureTime node of the model keeps it: in whole units
ToPayload(t) == (ToFixed(t) + 5000) \div 10000

\* imlist_norm and img_hdr for the frames of a successful bracketing; pixels
\* are the 8-bit values the frames show at one pixel
NormalizedFrames(pixels) == [i \in DOMAIN pixels |-> Normalized(pixels[i])]

\* if not ret: return False, None; else normalize, merge and return True, img_hdr
MergeFrames(b, times, pixels) ==
    IF b.exc # "none" THEN b
    ELSE IF b.ret # PyTrue THEN [b EXCEPT !.ret = PyFalse, !.out = None]
    ELSE [b EXCEPT !.ret = PyTrue, !.out = mergeHDR(NormalizedFrames(pixels), times)]

\* self.set(cv2.CAP_PROP_GAMMA, gamma_origin), after the bracketing ended as b
RestoreGamma(b, gamma_origin) ==
    IF b.exc # "none" THEN b
    ELSE LET r == Then(b, set(b.c, "CAP_PROP_GAMMA", gamma_origin))
         IN  IF r.exc # "none" THEN r ELSE [r EXCEPT !.ret = b.ret, !.out = b.out]

\* self.set(cv2.CAP_PROP_GAMMA, 1.0) and the bracketing
LinearBracketing(g, times, plan) ==
    LET s == Then(g, set(g.c, "CAP_PROP_GAMMA", PyFloat(1)))
    IN  Then(s, readExposureBracketing(s.c, [i \in DOMAIN times |-> ToPayload(times[i])], plan))

\* gamma_origin = self.get(cv2.CAP_PROP_GAMMA) and what follows
WithGamma(g, times, plan, pixels) ==
    IF g.exc # "none" THEN g
    ELSE MergeFrames(RestoreGamma(LinearBracketing(g, times, plan), g.ret), times, pixels)

\* num and times as readHDR(t_min, t_max, ratio) computes them on an opened camera
ExposureSeries(t_min, t_max, ratio) ==
    [num |-> ShotsOf(t_min, t_max, ratio),
     times |-> IF ShotsOf(t_min, t_max, ratio).k = "int"
               THEN TimesOf(t_min, t_max, ratio) ELSE <<>>]

\* readHDR with the exposure series its arguments give; self.cam is None on
\* an object that is not opened
readHDR(c, series, plan, pixels) ==
    IF c.cam = "none" THEN Raise(c, "AttributeError", {})
    ELSE IF series.num.k # "int" THEN Raise(c, series.num.k, {})
    ELSE WithGamma(get(c, "CAP_PROP_GAMMA"), series.times, plan, pixels)

----------------------------------------------------------------------------
(* VideoCaptureEX.average_num and VideoCapture.setExceptionMode *)

\* a setter that takes every int
set_average_num_int(c, value) ==
    IF value.k = "int"
    THEN Return([c EXCEPT !.average_num = value.v], None)
    ELSE warn(c, "average_num must be natural number", None)

\* the setter of average_num
set_average_num(c, value) ==
    IF value.k = "int" /\ value.v >= 1
    THEN Return([c EXCEPT !.average_num = value.v], None)
    ELSE warn(c, "average_num must be natural number", None)

\* warnings.simplefilter("error" | "ignore", EasyPySpinWarning)
setExceptionMode(c, enable) ==
    Return([c EXCEPT !.filter = IF enable THEN "error" ELSE "ignore"], None)

----------------------------------------------------------------------------
(* The inputs the calls are given *)

\* the camera list holds one camera or none
NumCams == {0, 1}

Indexes == {PyInt(0), PyInt(1), PyStr("serial0"), PyStr("unknown"), PyFloat(0)}

\* values handed to set_pyspin_value: below, inside and above every numeric
\* range, of every Python type the checks tell apart
Numbers == 0..4

EnumSymbols == {"Off", "On", "Software", "Line0", "Line3", "Continuous", "FrameStart", "hoge"}

Values ==
    {PyInt(i) : i \in Numbers} \cup {PyFloat(i) : i \in Numbers}
    \cup {PyTrue, PyFalse, None} \cup {PyStr(x) : x \in EnumSymbols}
    \cup {NdArray(1, PyInt(1)), NdArray(1, PyFloat(4)), NdArray(2, None)}

\* exposure times: below the minimum of ExposureTime, inside its range, above
\* its maximum
ExposureValues == (GetMin("ExposureTime") - 1)..(GetMax("ExposureTime") + 1)

Range(q) == {q[i] : i \in DOMAIN q}

RECURSIVE SeqsUpTo(_, _)
\* the sequences of distinct elements of S of length at most n, in every order
SeqsUpTo(S, n) ==
    IF n = 0 THEN {<<>>}
    ELSE LET shorter == SeqsUpTo(S, n - 1)
         IN  shorter \cup UNION {{Append(q, x) : x \in S \ Range(q)} :
                                    q \in {t \in shorter : Len(t) = n - 1}}

ExposureLists == SeqsUpTo(ExposureValues, MaxExposures)

\* the most GetNextImage calls one bracketing makes
MaxGrabs(c, exposures) == (DummyImages + Len(exposures)) * c.average_num

\* the deliveries one call can meet: a timeout needs a finite grabTimeout
Plans(c, n) ==
    {NoFault} \cup
    {[at |-> k, kind |-> f] : k \in 1..n,
       f \in IF c.grabTimeout = "finite" THEN {"incomplete", "timeout"} ELSE {"incomplete"}}

----------------------------------------------------------------------------
(* The calls as actions *)

TypeOK ==
    /\ DOMAIN nodes = ValueNodes
    /\ \A n \in ValueNodes : nodes[n] \in NodeDomain(n)
    /\ cam \in {"none", "valid"}
    /\ streaming \in BOOLEAN
    /\ pyspin_image.exists \in BOOLEAN
    /\ held \in Nat
    /\ auto_software_trigger_execute \in BOOLEAN
    /\ grabTimeout \in {"infinite", "finite"}
    /\ average_num \in Nat
    /\ exceptionMode \in {"default", "error", "ignore"}
    /\ access \in [ValueNodes -> {"RW", "RO", "WO", "NA"}]

\* no mergeHDR is called
NoMerge == [pc |-> "none", imlist |-> <<>>, times |-> <<>>, img_hdr |-> Zero]

\* the locals of a readExposureBracketing that stands before the statement pc
\* names; no thread is inside of one when pc is "idle"
Idle ==
    [pc |-> "idle", values_origin |-> <<>>, flag_origin |-> FALSE, exposures |-> <<>>,
     i |-> 0, imlist |-> <<>>]

\* the statements op ended as r says and left the bracketing at b
Step(op, r, b) ==
    /\ nodes' = r.c.nodes
    /\ cam' = r.c.cam
    /\ streaming' = r.c.streaming
    /\ pyspin_image' = r.c.image
    /\ held' = r.c.held
    /\ auto_software_trigger_execute' = r.c.flag
    /\ grabTimeout' = r.c.grabTimeout
    /\ average_num' = r.c.average_num
    /\ exceptionMode' = r.c.filter
    /\ access' = access
    /\ cap2' = cap2
    /\ bracket' = b
    /\ hdr' = hdr
    /\ last' = [op |-> op, ret |-> r.ret, exc |-> r.exc, diag |-> r.diag, out |-> r.out]

\* the call op ended as r says
Commit(op, r) ==
    /\ nodes' = r.c.nodes
    /\ cam' = r.c.cam
    /\ streaming' = r.c.streaming
    /\ pyspin_image' = r.c.image
    /\ held' = r.c.held
    /\ auto_software_trigger_execute' = r.c.flag
    /\ grabTimeout' = r.c.grabTimeout
    /\ average_num' = r.c.average_num
    /\ exceptionMode' = r.c.filter
    /\ access' = access
    /\ cap2' = cap2
    /\ bracket' = bracket
    /\ hdr' = hdr
    /\ last' = [op |-> op, ret |-> r.ret, exc |-> r.exc, diag |-> r.diag, out |-> r.out]

\* the call op ended as r says and called mergeHDR as h says
CommitMerged(op, r, h) ==
    /\ nodes' = r.c.nodes
    /\ cam' = r.c.cam
    /\ streaming' = r.c.streaming
    /\ pyspin_image' = r.c.image
    /\ held' = r.c.held
    /\ auto_software_trigger_execute' = r.c.flag
    /\ grabTimeout' = r.c.grabTimeout
    /\ average_num' = r.c.average_num
    /\ exceptionMode' = r.c.filter
    /\ access' = access
    /\ cap2' = cap2
    /\ bracket' = bracket
    /\ hdr' = h
    /\ last' = [op |-> op, ret |-> r.ret, exc |-> r.exc, diag |-> r.diag, out |-> r.out]

\* what an object keeps between calls: the warning filter belongs to the
\* process, the counters to one call
Stored(c) == [c EXCEPT !.filter = "process", !.grabs = 0, !.sets = <<>>,
                       !.pending = 0, !.log = <<>>, !.begins = 0, !.ends = <<>>]

\* the second object, constructed without an index
ClosedObject(config) ==
    [nodes |-> config, cam |-> "none", streaming |-> FALSE, image |-> NoImage,
     held |-> 0, flag |-> FALSE, grabTimeout |-> "infinite", average_num |-> 1,
     filter |-> "process", grabs |-> 0, sets |-> <<>>,
     pending |-> 0, log |-> <<>>, begins |-> 0, ends |-> <<>>]

\* the second object as a call on it finds it: under the filter of the process
Cur2 == [cap2 EXCEPT !.filter = exceptionMode]

\* the call op on the second object ended as r says
Commit2(op, r) ==
    /\ cap2' = Stored(r.c)
    /\ exceptionMode' = r.c.filter
    /\ last' = [op |-> op, ret |-> r.ret, exc |-> r.exc, diag |-> r.diag, out |-> r.out]
    /\ UNCHANGED <<nodes, cam, streaming, pyspin_image, held, auto_software_trigger_execute,
                   grabTimeout, average_num, access, bracket, hdr>>

Open == \E index \in Indexes, num_cam \in NumCams : Commit("open", open(Cur, index, num_cam))

Release == Commit("release", release(Cur))

SetPyspinValue(names, values) ==
    \E n \in names, v \in values : Commit("set_pyspin_value", set_pyspin_value(Cur, n, v))

GetPyspinValue(names) ==
    \E n \in names : Commit("get_pyspin_value", get_pyspin_value(Cur, n))

Set(values) ==
    \E propId \in PropIds, v \in values : Commit("set", set(Cur, propId, v))

Grab == \E plan \in Plans(Cur, 1) : Commit("grab", grab(Cur, plan))

Retrieve == Commit("retrieve", retrieve(Cur))

Read == \E plan \in Plans(Cur, 1) : Commit("read", read(Cur, plan))

ReadExposureBracketing ==
    \E exposures \in ExposureLists :
        \E plan \in Plans(Cur, MaxGrabs(Cur, exposures)) :
            Commit("readExposureBracketing", readExposureBracketing(Cur, exposures, plan))

\* VideoCaptureEX.read
ReadEx == \E plan \in Plans(Cur, average_num) : Commit("read", readEX(Cur, plan))

ReadExposureBracketingOf(lists) ==
    \E exposures \in lists :
        \E plan \in Plans(Cur, MaxGrabs(Cur, exposures)) :
            Commit("readExposureBracketing", readExposureBracketing(Cur, exposures, plan))

\* cap.auto_software_trigger_execute = b
SetAutoSoftwareTrigger ==
    \E b \in BOOLEAN :
        Commit("auto_software_trigger_execute", Return([Cur EXCEPT !.flag = b], None))

\* cap.grabTimeout = t
SetGrabTimeout ==
    \E t \in {"infinite", "finite"} :
        Commit("grabTimeout", Return([Cur EXCEPT !.grabTimeout = t], None))

Get == \E propId \in GetPropIds : Commit("get", get(Cur, propId))

SetExceptionMode ==
    \E enable \in BOOLEAN : Commit("setExceptionMode", setExceptionMode(Cur, enable))

\* MultipleVideoCapture on two cameras: what the call made of them
Applied(c1, c2, ret, exc, diag) == [c1 |-> c1, c2 |-> c2, ret |-> ret, exc |-> exc, diag |-> diag]

\* [cap.op(...) for cap in self]: r1 is what the call does on the first object,
\* r2 what it does on the second; an exception leaves the comprehension
Listed(r1, r2) ==
    IF r1.exc # "none" THEN Applied(r1.c, Cur2, NoReturn, r1.exc, r1.diag)
    ELSE IF r2.exc # "none" THEN Applied(r1.c, r2.c, NoReturn, r2.exc, r1.diag \cup r2.diag)
    ELSE Applied(r1.c, r2.c, <<r1.ret, r2.ret>>, "none", r1.diag \cup r2.diag)

\* futures = [executor.submit(cap.read) for cap in self]; executor.shutdown();
\* [future.result() for future in futures]: both reads run to their end, then
\* the first exception is raised again
Submitted(r1, r2) ==
    IF r1.exc # "none" THEN Applied(r1.c, r2.c, NoReturn, r1.exc, r1.diag \cup r2.diag)
    ELSE IF r2.exc # "none" THEN Applied(r1.c, r2.c, NoReturn, r2.exc, r1.diag \cup r2.diag)
    ELSE Applied(r1.c, r2.c, <<(<<r1.ret, r1.out>>), (<<r2.ret, r2.out>>)>>, "none",
                 r1.diag \cup r2.diag)

\* the call op on the MultipleVideoCapture ended as m says
CommitAll(op, m) ==
    /\ nodes' = m.c1.nodes
    /\ cam' = m.c1.cam
    /\ streaming' = m.c1.streaming
    /\ pyspin_image' = m.c1.image
    /\ held' = m.c1.held
    /\ auto_software_trigger_execute' = m.c1.flag
    /\ grabTimeout' = m.c1.grabTimeout
    /\ average_num' = m.c1.average_num
    /\ exceptionMode' = m.c1.filter
    /\ cap2' = Stored(m.c2)
    /\ last' = [op |-> op, ret |-> m.ret, exc |-> m.exc, diag |-> m.diag, out |-> None]
    /\ UNCHANGED <<access, bracket, hdr>>

MultiIsOpened ==
    CommitAll("caps.isOpened", Listed(Return(Cur, V("bool", isOpened(Cur))),
                                      Return(Cur2, V("bool", isOpened(Cur2)))))

MultiGrab ==
    \E p1 \in Plans(Cur, 1), p2 \in Plans(Cur2, 1) :
        CommitAll("caps.grab", Listed(grab(Cur, p1), grab(Cur2, p2)))

MultiRetrieve == CommitAll("caps.retrieve", Listed(retrieve(Cur), retrieve(Cur2)))

MultiRead ==
    \E p1 \in Plans(Cur, 1), p2 \in Plans(Cur2, 1) :
        CommitAll("caps.read", Submitted(read(Cur, p1), read(Cur2, p2)))

\* caps[0].set(propId, value)
SetOf(propIds, values) ==
    \E propId \in propIds, v \in values : Commit("set", set(Cur, propId, v))

MultiSet(propIds, values) ==
    \E propId \in propIds, v \in values :
        CommitAll("caps.set", Listed(set(Cur, propId, v), set(Cur2, propId, v)))

MultiGet(propIds) ==
    \E propId \in propIds :
        CommitAll("caps.get", Listed(get(Cur, propId), get(Cur2, propId)))

MultiSetPyspinValue(names, values) ==
    \E n \in names, v \in values :
        CommitAll("caps.set_pyspin_value",
                  Listed(set_pyspin_value(Cur, n, v), set_pyspin_value(Cur2, n, v)))

MultiGetPyspinValue(names) ==
    \E n \in names :
        CommitAll("caps.get_pyspin_value",
                  Listed(get_pyspin_value(Cur, n), get_pyspin_value(Cur2, n)))

\* caps.grabTimeout = t: __setattr__ assigns the attribute on every object
MultiSetGrabTimeout ==
    \E t \in {"infinite", "finite"} :
        CommitAll("caps.grabTimeout",
                  Applied([Cur EXCEPT !.grabTimeout = t], [Cur2 EXCEPT !.grabTimeout = t],
                          None, "none", {}))

\* SynchronizedVideoCapture on a primary (the first object) and a secondary
\* camera (the second); read() begins the acquisition of a camera itself
SyncBegin(c) == IF NotStreaming(c) THEN BeginAcquisition(c) ELSE c

\* the software trigger read() executes on the primary before it reads it
SyncTrigger(c) ==
    IF /\ c.nodes["TriggerMode"] = PySpinEnum["TriggerMode"]["On"]
       /\ c.nodes["TriggerSource"] = PySpinEnum["TriggerSource"]["Software"]
       /\ c.flag
    THEN TriggerSoftwareExecute(c)
    ELSE c

\* ret = [ret_p, ret_s]
SyncPair(r1, r2) ==
    IF r2.exc # "none" THEN Applied(r1.c, r2.c, NoReturn, r2.exc, r1.diag \cup r2.diag)
    ELSE Applied(r1.c, r2.c, <<r1.ret, r2.ret>>, "none", r1.diag \cup r2.diag)

\* self.cap_primary.read() has ended as r1; then self.cap_secondary.read()
SyncSecondary(r1, c2, p2) ==
    IF r1.exc # "none" THEN Applied(r1.c, c2, NoReturn, r1.exc, r1.diag)
    ELSE SyncPair(r1, read(c2, p2))

\* SynchronizedVideoCapture.read
syncRead(c1, c2, p1, p2) ==
    IF c1.cam = "none" THEN Applied(c1, c2, NoReturn, "AttributeError", {})
    ELSE IF c2.cam = "none" THEN Applied(SyncBegin(c1), c2, NoReturn, "AttributeError", {})
    ELSE SyncSecondary(read(SyncTrigger(SyncBegin(c1)), p1), SyncBegin(c2), p2)

SyncRead ==
    \E p1 \in Plans(Cur, 1), p2 \in Plans(Cur2, 1) :
        CommitAll("sync.read", syncRead(Cur, Cur2, p1, p2))

\* SynchronizedVideoCapture.set
SyncSet(propIds, values) ==
    \E propId \in propIds, v \in values :
        CommitAll("sync.set", Listed(set(Cur, propId, v), set(Cur2, propId, v)))

\* readExposureBracketing statement by statement, as a thread runs it while
\* other threads call the object
BracketLeft(r, b) == IF r.exc # "none" THEN Idle ELSE b

\* values_origin = [...]; auto_software_trigger_execute_origin = ...
BracketSnapshot(lists) ==
    /\ bracket.pc = "idle"
    /\ \E exposures \in lists :
        LET r == GetAll(Cur, node_names_to_change, 1)
        IN  Step("readExposureBracketing", r,
                 BracketLeft(r, [pc |-> "change", values_origin |-> r.out,
                                 flag_origin |-> auto_software_trigger_execute,
                                 exposures |-> exposures, i |-> 1, imlist |-> <<>>]))

\* the trigger, the flag and the gain forced before the loop
BracketChange ==
    /\ bracket.pc = "change"
    /\ LET r == ChangeSettings(Cur)
       IN  Step("readExposureBracketing", r,
                BracketLeft(r, [bracket EXCEPT
                                  !.pc = IF Len(bracket.exposures) = 0 THEN "end" ELSE "set"]))

\* self.set(cv2.CAP_PROP_EXPOSURE, float(exposure))
BracketSet ==
    /\ bracket.pc = "set"
    /\ LET r == set(Cur, "CAP_PROP_EXPOSURE", PyFloat(bracket.exposures[bracket.i]))
       IN  Step("readExposureBracketing", r, BracketLeft(r, [bracket EXCEPT !.pc = "read"]))

\* the dummy images of the first round, then ret, frame = self.read()
BracketFrame ==
    Then(IF bracket.i = 1 THEN DummyReads(Cur, NoFault, DummyImages) ELSE Return(Cur, None),
         readEX(IF bracket.i = 1 THEN DummyReads(Cur, NoFault, DummyImages).c ELSE Cur,
                NoFault))

BracketRead ==
    /\ bracket.pc = "read"
    /\ LET r == BracketFrame
       IN  IF r.exc = "none" /\ r.ret # PyTrue
           THEN Step("readExposureBracketing", [r EXCEPT !.ret = PyFalse, !.out = None], Idle)
           ELSE Step("readExposureBracketing", r,
                     BracketLeft(r, [bracket EXCEPT
                                       !.imlist = Append(@, r.out),
                                       !.i = @ + 1,
                                       !.pc = IF bracket.i = Len(bracket.exposures)
                                              THEN "end" ELSE "set"]))

\* EndAcquisition, the restore, return True, imlist
BracketEnd ==
    /\ bracket.pc = "end"
    /\ Step("readExposureBracketing",
            Restore(EndAcquisition(Cur), bracket.values_origin, bracket.flag_origin,
                    bracket.imlist),
            Idle)

\* the calls on the second object
Open2 == \E index \in {PyInt(0), PyInt(1)} : Commit2("cap2.open", open(Cur2, index, 1))

SetPyspinValue2(names, values) ==
    \E n \in names, v \in values :
        Commit2("cap2.set_pyspin_value", set_pyspin_value(Cur2, n, v))

GetPyspinValue2(names) ==
    \E n \in names : Commit2("cap2.get_pyspin_value", get_pyspin_value(Cur2, n))

Grab2 == \E plan \in Plans(Cur2, 1) : Commit2("cap2.grab", grab(Cur2, plan))

SetExceptionMode2 ==
    \E enable \in BOOLEAN : Commit2("cap2.setExceptionMode", setExceptionMode(Cur2, enable))

\* values assigned to average_num: ints below and from 1, a float, a bool
AverageValues == {PyInt(i) : i \in -1..MaxAverage} \cup {PyFloat(2), PyTrue}

SetAverageNum ==
    \E v \in AverageValues : Commit("average_num", set_average_num(Cur, v))

----------------------------------------------------------------------------
(* Specifications *)

\* the configuration the camera is found in
FactoryConfig ==
    [TriggerSelector |-> 1, TriggerMode |-> 0, TriggerSource |-> 0,
     ExposureAuto |-> 2, GainAuto |-> 2, ExposureTime |-> 2, Gain |-> 0,
     DeviceTemperature |-> 1, Width |-> 2, GammaEnable |-> TRUE, V3_3Enable |-> FALSE,
     Gamma |-> 2]

\* the access modes of the nodes: the temperature can only be read, the 3.3 V
\* output is not available on this camera
FactoryAccess ==
    [n \in ValueNodes |->
        CASE n = "DeviceTemperature" -> "RO"
          [] n = "V3_3Enable"        -> "NA"
          [] OTHER                   -> "RW"]

\* a VideoCapture() constructed without an index
Constructed(config) ==
    /\ nodes = config
    /\ cam = "none"
    /\ streaming = FALSE
    /\ pyspin_image = NoImage
    /\ held = 0
    /\ auto_software_trigger_execute = FALSE
    /\ grabTimeout = "infinite"
    /\ average_num = 1
    /\ exceptionMode = "default"
    /\ access = FactoryAccess
    /\ cap2 = ClosedObject(FactoryConfig)
    /\ bracket = Idle
    /\ hdr = NoMerge
    /\ last = [op |-> "__init__", ret |-> None, exc |-> "none", diag |-> {}, out |-> None]

Init == Constructed(FactoryConfig)

\* one node of every kind, one without SetValue, one unknown name
StoreNames ==
    {"Width", "ExposureTime", "GammaEnable", "TriggerSource", "ExposureAuto",
     "DeviceTemperature", "V3_3Enable", "TriggerSoftware", "hoge"}

\* the node store: open, release, set and get by node name and by property
Next ==
    \/ Open
    \/ Release
    \/ SetPyspinValue(StoreNames, Values)
    \/ GetPyspinValue(StoreNames)
    \/ Set(Values)

Spec == Init /\ [][Next]_vars

\* values for the node store under each warning filter: of every type, inside
\* and outside the ranges
ModeValues ==
    {PyInt(2), PyFloat(4), PyTrue, PyStr("hoge"), None}

ModeNames == {"Width", "ExposureTime", "TriggerMode", "DeviceTemperature", "hoge"}

\* the node store, open and grab, with the exceptions mode switched on and off
NextMode ==
    \/ Open
    \/ Release
    \/ SetExceptionMode
    \/ SetPyspinValue(ModeNames, ModeValues)
    \/ GetPyspinValue(ModeNames)
    \/ Set(ModeValues)
    \/ Get
    \/ Grab

SpecMode == Init /\ [][NextMode]_vars

\* the capture session: grab, retrieve, read, with the trigger switched by hand
NextCapture ==
    \/ Open
    \/ Release
    \/ Grab
    \/ Retrieve
    \/ Read
    \/ SetAutoSoftwareTrigger
    \/ SetGrabTimeout
    \/ SetPyspinValue({"TriggerMode", "TriggerSource", "ExposureTime"},
                      {PyStr("On"), PyStr("Off"), PyStr("Software"), PyStr("Line0"),
                       PyFloat(2), PyFloat(3)})

SpecCapture == Init /\ [][NextCapture]_vars

\* the configurations a bracketing finds the camera in: the factory one, one
\* that differs from every forced setting, one that equals the forced settings
DeviceConfigs ==
    {FactoryConfig,
     [FactoryConfig EXCEPT !.TriggerSelector = 0, !.TriggerSource = 1, !.ExposureTime = 3,
                           !.Gain = 1],
     [FactoryConfig EXCEPT !.TriggerMode = 1, !.ExposureAuto = 0, !.GainAuto = 0]}

\* a VideoCaptureEX(0) on a camera found in one of these configurations
InitBracket ==
    \E config \in DeviceConfigs :
        /\ nodes = config
        /\ cam = "valid"
        /\ streaming = FALSE
        /\ pyspin_image = NoImage
        /\ held = 0
        /\ auto_software_trigger_execute = FALSE
        /\ grabTimeout = "infinite"
        /\ average_num = 1
        /\ exceptionMode = "default"
        /\ access = FactoryAccess
        /\ cap2 = ClosedObject(FactoryConfig)
        /\ bracket = Idle
        /\ hdr = NoMerge
        /\ last = [op |-> "open", ret |-> PyTrue, exc |-> "none", diag |-> {}, out |-> None]

NextBracket ==
    \/ Release
    \/ ReadExposureBracketing
    \/ SetAutoSoftwareTrigger
    \/ SetGrabTimeout

SpecBracket == InitBracket /\ [][NextBracket]_vars

\* one VideoCaptureEX shared by two threads: one runs a bracketing, the other
\* sets the exposure time and grabs
SharedLists == {q \in ExposureLists : \A k \in 1..Len(q) : q[k] \in {2, 3}}

SharedValues == {PyFloat(3)}

NextShared ==
    \/ BracketSnapshot(SharedLists)
    \/ BracketChange
    \/ BracketSet
    \/ BracketRead
    \/ BracketEnd
    \/ Set(SharedValues)
    \/ Grab

SpecShared == InitBracket /\ [][NextShared]_vars

\* most frames handed to one mergeHDR
MaxFrames == 2

\* the exposure times of the model: 1e-322, 1e-305, 1e-296, 1e4, 1e305
ExposureTimes ==
    {Fin(1000, -325), Fin(1000, -308), Fin(1000, -299), Fin(1000, 1), Fin(1000, 302)}

\* a call mergeHDR(imlist, times) about to be made
InitHDR ==
    /\ nodes = FactoryConfig
    /\ cam = "none"
    /\ streaming = FALSE
    /\ pyspin_image = NoImage
    /\ held = 0
    /\ auto_software_trigger_execute = FALSE
    /\ grabTimeout = "infinite"
    /\ average_num = 1
    /\ exceptionMode = "default"
    /\ access = FactoryAccess
    /\ cap2 = ClosedObject(FactoryConfig)
    /\ bracket = Idle
    /\ last = [op |-> "__init__", ret |-> None, exc |-> "none", diag |-> {}, out |-> None]
    /\ \E n \in 1..MaxFrames :
        \E imlist \in [1..n -> PixelValues], times \in [1..n -> ExposureTimes] :
            hdr = [pc |-> "called", imlist |-> imlist, times |-> times, img_hdr |-> Zero]

MergeHDR ==
    /\ hdr.pc = "called"
    /\ hdr' = [hdr EXCEPT !.pc = "returned", !.img_hdr = mergeHDR(hdr.imlist, hdr.times)]
    /\ UNCHANGED <<nodes, cam, streaming, pyspin_image, held, auto_software_trigger_execute,
                   grabTimeout, average_num, exceptionMode, access, cap2, bracket, last>>

NextHDR == MergeHDR

\* exposure times t of the model, for the merges at [t, 2t]: 10 .. 8e6
PairTimes == {Fin(m, e) : m \in {1000, 1250, 2000, 2500, 4000, 5000, 8000}, e \in -2..3}

\* 2 * t
Twice(t) == Mul(Fin(2000, -3), t)

\* mergeHDR about to be called with an 8-bit frame normalized as readHDR does,
\* once or repeated, at time_ref; or with two frames of 0.5 at [t, 2t]
InitMerge ==
    /\ nodes = FactoryConfig
    /\ cam = "none"
    /\ streaming = FALSE
    /\ pyspin_image = NoImage
    /\ held = 0
    /\ auto_software_trigger_execute = FALSE
    /\ grabTimeout = "infinite"
    /\ average_num = 1
    /\ exceptionMode = "default"
    /\ access = FactoryAccess
    /\ cap2 = ClosedObject(FactoryConfig)
    /\ bracket = Idle
    /\ last = [op |-> "__init__", ret |-> None, exc |-> "none", diag |-> {}, out |-> None]
    /\ \/ \E n \in 1..MaxFrames, v \in 0..max_value :
            hdr = [pc |-> "called", imlist |-> [i \in 1..n |-> Normalized(v)],
                   times |-> [i \in 1..n |-> time_ref], img_hdr |-> Zero]
       \/ \E t \in PairTimes :
            hdr = [pc |-> "called", imlist |-> <<Fin(5000, -4), Fin(5000, -4)>>,
                   times |-> <<t, Twice(t)>>, img_hdr |-> Zero]

SpecMerge == InitMerge /\ [][NextHDR]_vars

SpecHDR == InitHDR /\ [][NextHDR]_vars

\* caps = MultipleVideoCapture(0, 1) on two cameras that opened
InitMulti ==
    /\ nodes = FactoryConfig
    /\ cam = "valid"
    /\ streaming = FALSE
    /\ pyspin_image = NoImage
    /\ held = 0
    /\ auto_software_trigger_execute = FALSE
    /\ grabTimeout = "infinite"
    /\ average_num = 1
    /\ exceptionMode = "default"
    /\ access = FactoryAccess
    /\ cap2 = [ClosedObject(FactoryConfig) EXCEPT !.cam = "valid"]
    /\ bracket = Idle
    /\ hdr = NoMerge
    /\ last = [op |-> "caps.open", ret |-> <<PyTrue, PyTrue>>, exc |-> "none", diag |-> {},
               out |-> None]

MultiNames == {"ExposureTime", "hoge"}

MultiValues == {PyFloat(3)}

MultiIds == {"CAP_PROP_EXPOSURE", "CAP_PROP_ZOOM"}

\* the calls on caps, caps[0].release(), caps[0].set(...) and setExceptionMode
NextMulti ==
    \/ MultiIsOpened
    \/ MultiGrab
    \/ MultiRetrieve
    \/ MultiRead
    \/ MultiSet(MultiIds, MultiValues)
    \/ MultiGet(MultiIds)
    \/ MultiSetPyspinValue(MultiNames, MultiValues)
    \/ MultiGetPyspinValue(MultiNames)
    \/ MultiSetGrabTimeout
    \/ Release
    \/ SetOf(MultiIds, MultiValues)
    \/ SetExceptionMode

SpecMulti == InitMulti /\ [][NextMulti]_vars

\* the secondary camera as _configure_as_secondary leaves it: triggered by the
\* line the primary drives
SecondaryConfig ==
    [FactoryConfig EXCEPT !["TriggerSelector"] = PySpinEnum["TriggerSelector"]["FrameStart"],
                          !["TriggerSource"] = PySpinEnum["TriggerSource"]["Line3"],
                          !["TriggerMode"] = PySpinEnum["TriggerMode"]["On"]]

\* SynchronizedVideoCapture(cap_primary, cap_secondary) on two opened cameras
InitSync ==
    /\ nodes = FactoryConfig
    /\ cam = "valid"
    /\ streaming = FALSE
    /\ pyspin_image = NoImage
    /\ held = 0
    /\ auto_software_trigger_execute = TRUE
    /\ grabTimeout = "infinite"
    /\ average_num = 1
    /\ exceptionMode = "default"
    /\ access = FactoryAccess
    /\ cap2 = [ClosedObject(SecondaryConfig) EXCEPT !.cam = "valid"]
    /\ bracket = Idle
    /\ hdr = NoMerge
    /\ last = [op |-> "sync", ret |-> None, exc |-> "none", diag |-> {}, out |-> None]

SyncNames == {"TriggerMode", "TriggerSource"}

SyncValues == {PyStr("On"), PyStr("Off"), PyStr("Software"), PyStr("Line0"), PyFloat(3)}

SyncIds == {"CAP_PROP_EXPOSURE", "CAP_PROP_GAIN"}

NextSync ==
    \/ SyncRead
    \/ SyncSet(SyncIds, SyncValues)
    \/ SetPyspinValue(SyncNames, SyncValues)
    \/ SetExceptionMode

SpecSync == InitSync /\ [][NextSync]_vars

\* two VideoCapture objects on two cameras of one process
TwoValues == {PyFloat(3)}

TwoNames == {"ExposureTime", "hoge"}

NextTwo ==
    \/ Open
    \/ SetExceptionMode
    \/ Set(TwoValues)
    \/ Get
    \/ Grab
    \/ Open2
    \/ SetPyspinValue2(TwoNames, TwoValues)
    \/ GetPyspinValue2(TwoNames)
    \/ Grab2
    \/ SetExceptionMode2

SpecTwo == Init /\ [][NextTwo]_vars

\* cameras on which a node of the bracketing cannot be written (the exposure
\* time is locked) or cannot be read (the trigger selector)
AccessConfigs ==
    {FactoryAccess,
     [FactoryAccess EXCEPT !.ExposureTime = "RO"],
     [FactoryAccess EXCEPT !.TriggerSelector = "WO"]}

\* a VideoCaptureEX(0) on one of these cameras
InitRestore ==
    \E config \in DeviceConfigs, a \in AccessConfigs :
        /\ nodes = config
        /\ cam = "valid"
        /\ streaming = FALSE
        /\ pyspin_image = NoImage
        /\ held = 0
        /\ auto_software_trigger_execute = FALSE
        /\ grabTimeout = "infinite"
        /\ average_num = 1
        /\ exceptionMode = "default"
        /\ access = a
        /\ cap2 = ClosedObject(FactoryConfig)
        /\ bracket = Idle
        /\ hdr = NoMerge
        /\ last = [op |-> "open", ret |-> PyTrue, exc |-> "none", diag |-> {}, out |-> None]

\* the series of at most one exposure time
ShortLists == {q \in ExposureLists : Len(q) <= 1}

\* reads and bracketings under each warning filter
NextRestore ==
    \/ SetExceptionMode
    \/ ReadEx
    \/ ReadExposureBracketingOf(ShortLists)

SpecRestore == InitRestore /\ [][NextRestore]_vars

\* the arguments of readHDR: exposure times below and above the range of
\* ExposureTime, ratios below 1, 1, above 1, and one whose square is beyond
\* the floats
HDRTimes == {Fin(1000, -3), Fin(5000, -3)}

HDRRatios == {Fin(5000, -4), Fin(1000, -3), Fin(1100, -3), Fin(2000, -3), Fin(1000, 197)}

\* the 8-bit values a pixel shows in the frames
HDRPixels == {64}

\* the mergeHDR call a readHDR that ended as r made, if it made one
MergeOf(r, times, pixels) ==
    IF r.exc = "none" /\ r.ret = PyTrue
    THEN [pc |-> "returned", imlist |-> NormalizedFrames(pixels), times |-> times,
          img_hdr |-> r.out]
    ELSE hdr

\* the count of shots and the exposure times for the arguments of the model
Shooting ==
    [t_min \in HDRTimes, t_max \in HDRTimes, ratio \in HDRRatios |->
        ExposureSeries(t_min, t_max, ratio)]

\* the frames show one value at the pixel, or the calls ends before any frame
Merging(t_min, t_max, ratio, plan, v) ==
    LET pixels == [i \in DOMAIN Shooting[t_min, t_max, ratio].times |-> v]
        r == readHDR(Cur, Shooting[t_min, t_max, ratio], plan, pixels)
    IN  CommitMerged("readHDR", r, MergeOf(r, Shooting[t_min, t_max, ratio].times, pixels))

ReadHDR ==
    \E t_min \in HDRTimes, t_max \in HDRTimes, ratio \in HDRRatios :
        \E plan \in Plans(Cur, DummyImages + Len(Shooting[t_min, t_max, ratio].times)),
           v \in HDRPixels :
            Merging(t_min, t_max, ratio, plan, v)

\* the gamma settings a readHDR finds
GammaConfigs ==
    {FactoryConfig,
     [FactoryConfig EXCEPT !.Gamma = 1],
     [FactoryConfig EXCEPT !.GammaEnable = FALSE]}

\* a VideoCaptureEX(0) on a camera found with one of these settings
InitReadHDR ==
    \E config \in GammaConfigs :
        /\ nodes = config
        /\ cam = "valid"
        /\ streaming = FALSE
        /\ pyspin_image = NoImage
        /\ held = 0
        /\ auto_software_trigger_execute = FALSE
        /\ grabTimeout = "infinite"
        /\ average_num = 1
        /\ exceptionMode = "default"
        /\ access = FactoryAccess
        /\ cap2 = ClosedObject(FactoryConfig)
        /\ bracket = Idle
        /\ hdr = NoMerge
        /\ last = [op |-> "open", ret |-> PyTrue, exc |-> "none", diag |-> {}, out |-> None]

NextReadHDR ==
    \/ ReadHDR
    \/ SetExceptionMode

SpecReadHDR == InitReadHDR /\ [][NextReadHDR]_vars

\* cameras on which the automatic control or the value it drives is locked
ManualAccess ==
    {FactoryAccess,
     [FactoryAccess EXCEPT !.ExposureAuto = "RO"],
     [FactoryAccess EXCEPT !.GainAuto = "RO"],
     [FactoryAccess EXCEPT !.ExposureTime = "RO"]}

\* a VideoCapture(0) on one of these cameras
InitManual ==
    \E a \in ManualAccess :
        /\ nodes = FactoryConfig
        /\ cam = "valid"
        /\ streaming = FALSE
        /\ pyspin_image = NoImage
        /\ held = 0
        /\ auto_software_trigger_execute = FALSE
        /\ grabTimeout = "infinite"
        /\ average_num = 1
        /\ exceptionMode = "default"
        /\ access = a
        /\ cap2 = ClosedObject(FactoryConfig)
        /\ bracket = Idle
        /\ hdr = NoMerge
        /\ last = [op |-> "open", ret |-> PyTrue, exc |-> "none", diag |-> {}, out |-> None]

\* values for the exposure time and the gain: the request for the automatic
\* control, values inside and outside the ranges, values of other types
ManualValues ==
    {PyInt(-1), PyFloat(-1), PyInt(1), PyFloat(3), PyFloat(4), PyStr("hoge"), PyTrue}

ManualIds == {"CAP_PROP_EXPOSURE", "CAP_PROP_GAIN"}

\* the exposure time and the gain set by property, under each warning filter
NextManual ==
    \/ Release
    \/ SetExceptionMode
    \/ SetOf(ManualIds, ManualValues)
    \/ Get

SpecManual == InitManual /\ [][NextManual]_vars

\* a VideoCaptureEX whose average_num is assigned between reads, under every
\* warning filter
NextAverage ==
    \/ SetAverageNum
    \/ SetExceptionMode
    \/ SetGrabTimeout
    \/ ReadEx

SpecAverage == InitBracket /\ [][NextAverage]_vars

----------------------------------------------------------------------------
(* Properties of the node store (set_pyspin_value, get_pyspin_value), checked *)
(* in every state Spec reaches, for every call that can be made from it       *)

\* the scalar the checks of set_pyspin_value see: the element of a one-element
\* array, the value itself otherwise
ScalarOf(v) == IF v.k = "ndarray" /\ v.size = 1 THEN v.item ELSE v

Smaller(a, b) == IF a <= b THEN a ELSE b

Larger(a, b) == IF a >= b THEN a ELSE b

NumericNodes == IntegerNodes \cup FloatNodes

\* the Python types each kind of node takes
TypesTaken(n) ==
    CASE n \in IntegerNodes -> {"int"}
      [] n \in FloatNodes   -> {"int", "float"}
      [] n \in BooleanNodes -> {"bool"}
      [] n \in EnumNodes    -> {"int", "str"}

WritableNodes ==
    {"TriggerSelector", "TriggerMode", "TriggerSource", "ExposureAuto", "GainAuto",
     "ExposureTime", "Gain", "Width", "GammaEnable"}

NotWritableNodes == {"DeviceTemperature", "V3_3Enable"}

NotReadableNodes == {"V3_3Enable"}

\* a call that left the object and the camera as they were
Untouched(r) == r.exc = "none" /\ [r.c EXCEPT !.sets = <<>>] = Cur

\* C3: on an Integer or Float node a set_pyspin_value that succeeds stores
\* min(max(v, min), max); with a value of the node's type on an open camera and
\* a writable node it succeeds, and it warns exactly when v is outside
\* [min, max]; the stored value of every such node is always inside [min, max]
C3_StoresClipped ==
    /\ \A n \in NumericNodes : nodes[n] >= GetMin(n) /\ nodes[n] <= GetMax(n)
    /\ \A n \in NumericNodes, v \in Values :
         LET r == set_pyspin_value(Cur, n, v)
             x == ScalarOf(v)
             outside == x.v < GetMin(n) \/ x.v > GetMax(n)
         IN  /\ r.ret = PyTrue =>
                  r.c.nodes[n] = Smaller(Larger(x.v, GetMin(n)), GetMax(n))
             /\ (cam = "valid" /\ n \in WritableNodes /\ x.k \in TypesTaken(n)) =>
                  /\ r.exc = "none" /\ r.ret = PyTrue
                  /\ outside <=> r.diag # {}

\* an out-of-range value was set: clipped, warned, True
C3_Witness ==
    /\ last.op = "set_pyspin_value" /\ last.ret = PyTrue /\ "clipped" \in last.diag
    /\ nodes["ExposureTime"] = GetMax("ExposureTime")

\* C4: for a node name the camera does not have, set_pyspin_value returns False
\* and get_pyspin_value a failure value (None, or False on a closed camera),
\* each with a warning and without changing anything
C4_UnknownNode ==
    \A n \in UnknownNames :
        /\ \A v \in Values :
             LET s == set_pyspin_value(Cur, n, v)
             IN  s.ret = PyFalse /\ s.diag # {} /\ Untouched(s)
        /\ LET g == get_pyspin_value(Cur, n)
           IN  g.ret = (IF cam = "valid" THEN None ELSE PyFalse) /\ g.diag # {} /\ Untouched(g)

\* the open camera was asked for a node it does not have
C4_Witness ==
    /\ cam = "valid" /\ last.op = "get_pyspin_value"
    /\ last.ret = None /\ "no attribute" \in last.diag

\* C5: a value whose type the node's kind does not take is refused: False, a
\* warning, nothing changed. An Integer node takes int only, a Float node int or
\* float, a Boolean node bool only; a value of a type taken is stored
C5_TypeMismatch ==
    \A n \in IntegerNodes \cup FloatNodes \cup BooleanNodes, v \in Values :
        LET r == set_pyspin_value(Cur, n, v)
            x == ScalarOf(v)
        IN  /\ x.k \notin TypesTaken(n) => r.ret = PyFalse /\ r.diag # {} /\ Untouched(r)
            /\ (x.k \in TypesTaken(n) /\ cam = "valid" /\ n \in WritableNodes) =>
                 r.ret = PyTrue

\* an Integer node was given a float on an open camera
C5_Witness ==
    /\ cam = "valid" /\ last.op = "set_pyspin_value"
    /\ last.ret = PyFalse /\ last.diag = {"value type"}

\* the symbolic names of the entries the device has for an Enumeration node
EntryNames(n) == {x \in DOMAIN PySpinEnum[n] : PySpinEnum[n][x] \in Entries(n)}

\* C6: an Enumeration node takes the integer code of an entry, or the entry's
\* symbolic name, which is stored as its code; a string that names no entry is
\* refused: False, a warning, the node unchanged
C6_Enumeration ==
    \A n \in EnumNodes, v \in Values :
        LET r == set_pyspin_value(Cur, n, v)
        IN  /\ (v.k = "str" /\ v.v \notin EntryNames(n)) =>
                 r.ret = PyFalse /\ r.diag # {} /\ Untouched(r)
            /\ (cam = "valid" /\ v.k = "str" /\ v.v \in EntryNames(n)) =>
                 r.ret = PyTrue /\ r.c.nodes[n] = PySpinEnum[n][v.v]
            /\ (cam = "valid" /\ v.k = "int" /\ v.v \in Entries(n)) =>
                 r.ret = PyTrue /\ r.c.nodes[n] = v.v

\* TriggerSource was set by the name "Line0" and holds its code
C6_Witness ==
    /\ last.op = "set_pyspin_value" /\ last.ret = PyTrue /\ last.diag = {}
    /\ nodes["TriggerSource"] = 1 /\ nodes["ExposureAuto"] = 0

\* C7: set_pyspin_value on a node that is not writable returns False and changes
\* nothing; get_pyspin_value on a node that is not readable returns a failure
\* value (None, or False on a closed camera), never the stored value; both warn
C7_AccessRefused ==
    /\ \A n \in NotWritableNodes, v \in Values :
         LET s == set_pyspin_value(Cur, n, v)
         IN  s.ret = PyFalse /\ s.diag # {} /\ Untouched(s)
    /\ \A n \in NotReadableNodes :
         LET g == get_pyspin_value(Cur, n)
         IN  g.ret = (IF cam = "valid" THEN None ELSE PyFalse) /\ g.diag # {} /\ Untouched(g)

\* the open camera refused a write to a read-only node
C7_Witness ==
    /\ cam = "valid" /\ last.op = "set_pyspin_value"
    /\ last.ret = PyFalse /\ last.diag = {"not writable"}

----------------------------------------------------------------------------
(* Properties of grab and retrieve, checked in every state SpecCapture reaches *)

\* C8: retrieve() returns (False, None) unless a grab happened since the last
\* retrieve: a retrieve right after the object was made or opened, or right
\* after another retrieve, fails
C8_RetrieveNeedsGrab ==
    last.op \in {"__init__", "open", "retrieve"} => retrieve(Cur).ret = PyFalse

\* C9: at most one buffer of the driver is held, and the buffer a grab obtained
\* has been given back once retrieve, an incomplete grab or release() is over
C9_BufferReleased ==
    /\ held <= 1
    /\ last.op \in {"retrieve", "release"} => held = 0
    /\ (last.op = "grab" /\ last.ret = PyFalse) => held = 0

\* the frames that make a grab fail: incomplete, or none before grabTimeout
FailedDeliveries == Plans(Cur, 1) \ {NoFault}

\* C10: on an open camera a grab that meets a timeout or an incomplete frame
\* returns False without raising, the camera stays open, and the next grab can
\* succeed
C10_GrabRecoverable ==
    cam = "valid" =>
        \A plan \in FailedDeliveries :
            LET r == grab(Cur, plan)
            IN  /\ r.exc = "none" /\ r.ret = PyFalse
                /\ isOpened(r.c)
                /\ grab(r.c, NoFault).ret = PyTrue

----------------------------------------------------------------------------
(* Properties of readExposureBracketing, checked in every state SpecBracket   *)
(* reaches, for every exposure list and every delivery of frames              *)

\* the values of the six nodes the method saves
Snapshot(c) == [i \in DOMAIN node_names_to_change |-> c.nodes[node_names_to_change[i]]]

\* the object holds what it held before the call
Restored(r) == Snapshot(r.c) = Snapshot(Cur) /\ r.c.flag = auto_software_trigger_execute

\* the grabs of the dummy reads come first
DummyGrabs == DummyImages * average_num

\* the frame of some kept read is incomplete
CaptureFails(plan) == plan.kind = "incomplete" /\ plan.at > DummyGrabs

\* every kept read gets complete frames (a dummy read may get an incomplete one)
CapturesSucceed(plan) == plan = NoFault \/ (plan.kind = "incomplete" /\ plan.at <= DummyGrabs)

\* C1: when a capturing read fails, at whatever position of the series, the call
\* returns failure and the six nodes and auto_software_trigger_execute hold
\* their values of before the call
C1_RestoredOnFailure ==
    cam = "valid" =>
        \A exposures \in ExposureLists :
            \A plan \in Plans(Cur, MaxGrabs(Cur, exposures)) :
                LET r == readExposureBracketing(Cur, exposures, plan)
                IN  CaptureFails(plan) =>
                        r.exc = "none" /\ r.ret = PyFalse /\ Restored(r)

ExposureHeld(t) == Smaller(Larger(t, GetMin("ExposureTime")), GetMax("ExposureTime"))

FailingCapture(plan) == ((plan.at - DummyGrabs - 1) \div average_num) + 1

\* C11: the first failing capture (an incomplete frame, or no frame before
\* grabTimeout) stops the series: no later exposure time is set, no later frame
\* is grabbed, and the call returns (False, None), never a list of frames
C11_AbortsSeries ==
    cam = "valid" =>
        \A exposures \in ExposureLists :
            \A plan \in Plans(Cur, MaxGrabs(Cur, exposures)) :
                LET r == readExposureBracketing(Cur, exposures, plan)
                IN  plan.at > DummyGrabs =>
                        /\ r.exc = "none" /\ r.ret = PyFalse /\ r.out = None
                        /\ r.c.grabs = plan.at
                        /\ r.c.nodes["ExposureTime"] =
                               ExposureHeld(exposures[FailingCapture(plan)])

----------------------------------------------------------------------------
(* Properties of release and open *)

\* C14: after release(), from whatever state it was called in, the camera is not
\* streaming, isOpened() is False, grab() returns False without beginning the
\* acquisition, and no grabbed buffer is held any more: retrieve() fails
C14_ReleasedState ==
    last.op = "release" =>
        /\ ~streaming /\ ~isOpened(Cur)
        /\ LET g == grab(Cur, NoFault)
           IN  g.exc = "none" /\ g.ret = PyFalse /\ ~g.c.streaming
        /\ held = 0
        /\ retrieve(Cur).ret = PyFalse

\* the failing cases of open: what it warns of, and "" where the camera found
\* by serial number is not valid (no warning)
OpenFailure(index, num_cam) ==
    IF num_cam = 0 THEN "no camera is available"
    ELSE IF index.k = "int"
    THEN IF index.v < 0 \/ index.v > num_cam - 1 THEN "out device of bound" ELSE "opens"
    ELSE IF index.k = "str"
    THEN IF index.v = "serial0" THEN "opens" ELSE ""
    ELSE "index must be int or str"

\* C19 as stated: open(index) returns False without raising and leaves
\* isOpened() False when no camera is available, when an int index is out of
\* range, when index is neither int nor str, or when the camera is not valid; it
\* returns True only with isOpened() True; an open on an open object releases
\* the previous camera first
C19_OpenNeverRaises ==
    \A index \in Indexes, num_cam \in NumCams :
        LET r == open(Cur, index, num_cam)
        IN  /\ r.exc = "none"
            /\ OpenFailure(index, num_cam) # "opens" => r.ret = PyFalse /\ ~isOpened(r.c)
            /\ r.ret = PyTrue => isOpened(r.c)
            /\ ~r.c.streaming

\* C19, amended: in each of these cases open leaves isOpened() False; it returns
\* False, unless the exceptions mode is on, where the three cases that warn
\* raise EasyPySpinWarning instead; it returns True only with isOpened() True;
\* the camera opened before is released first in every case
C19_OpenFails ==
    \A index \in Indexes, num_cam \in NumCams :
        LET r == open(Cur, index, num_cam)
            failure == OpenFailure(index, num_cam)
        IN  /\ failure # "opens" =>
                 /\ ~isOpened(r.c)
                 /\ IF exceptionMode = "error" /\ failure # ""
                    THEN r.exc = "EasyPySpinWarning" /\ r.diag = {failure}
                    ELSE r.exc = "none" /\ r.ret = PyFalse
            /\ failure = "opens" => r.exc = "none"
            /\ r.ret = PyTrue <=> (failure = "opens" /\ isOpened(r.c))
            /\ ~r.c.streaming
            /\ r.c.nodes = nodes

\* an open with an index out of range raised in the exceptions mode and left
\* the object closed
C19_Witness ==
    /\ last.op = "open" /\ last.exc = "EasyPySpinWarning"
    /\ last.diag = {"out device of bound"}
    /\ cam = "none" /\ exceptionMode = "error"
    /\ pyspin_image.exists /\ ~streaming

----------------------------------------------------------------------------
(* Properties of set, get and the exceptions mode, checked in every state      *)
(* SpecMode reaches                                                           *)

\* the property identifiers set and get do not support
UnsupportedBySet == {"CAP_PROP_ZOOM", "CAP_PROP_TEMPERATURE"}

UnsupportedByGet == {"CAP_PROP_ZOOM"}

\* set and get with every unsupported identifier
UnsupportedCalls ==
    {set(Cur, propId, v) : propId \in UnsupportedBySet, v \in ModeValues}
    \cup {get(Cur, propId) : propId \in UnsupportedByGet}

\* C15 as stated: set(propId, value) and get(propId) with an unsupported
\* identifier return False with a "not supported" diagnostic, raise no exception
\* and change nothing
C15_UnsupportedReturnsFalse ==
    \A r \in UnsupportedCalls :
        r.exc = "none" /\ r.ret = PyFalse /\ r.diag = {"not supported"} /\ r.c = Cur

\* C15, amended: with an unsupported identifier set and get issue a "not
\* supported" diagnostic and change nothing; they return False without raising,
\* unless the exceptions mode is on, where the diagnostic is raised as
\* EasyPySpinWarning
C15_Unsupported ==
    \A r \in UnsupportedCalls :
        /\ r.diag = {"not supported"} /\ r.c = Cur
        /\ IF exceptionMode = "error"
           THEN r.exc = "EasyPySpinWarning"
           ELSE r.exc = "none" /\ r.ret = PyFalse

\* get met an unsupported identifier on an open camera, outside the exceptions mode
C15_Witness ==
    /\ cam = "valid" /\ exceptionMode # "error"
    /\ last.op = "get" /\ last.ret = PyFalse /\ last.diag = {"not supported"}

\* every call of the node store, of set and get, of open and of the average_num
\* setter that can be made
ModeCalls ==
    {set_pyspin_value(Cur, n, v) : n \in NodeNames, v \in Values}
    \cup {get_pyspin_value(Cur, n) : n \in NodeNames}
    \cup {set(Cur, propId, v) : propId \in GetPropIds, v \in Values}
    \cup {get(Cur, propId) : propId \in GetPropIds}
    \cup {open(Cur, index, num_cam) : index \in Indexes, num_cam \in NumCams}
    \cup {set_average_num(Cur, v) : v \in Values}

\* C18: after setExceptionMode(True) every call that emits a diagnostic raises
\* EasyPySpinWarning and returns nothing; after setExceptionMode(False) no call
\* raises, and a call that emits a diagnostic returns its failure value (False
\* or None; True where the diagnostic is the clipping of the value); the mode
\* is the one the last setExceptionMode set: no other call changes it
C18_ExceptionMode ==
    /\ \A r \in ModeCalls :
         /\ r.c.filter = exceptionMode
         /\ exceptionMode = "error" =>
              /\ r.diag # {} => r.exc = "EasyPySpinWarning" /\ r.ret = NoReturn
              /\ r.diag = {} => r.exc = "none"
         /\ exceptionMode = "ignore" =>
              /\ r.exc = "none"
              /\ (r.diag # {} /\ "clipped" \notin r.diag) => r.ret \in {PyFalse, None}
    /\ \A first \in BOOLEAN, second \in BOOLEAN :
         LET r == setExceptionMode(setExceptionMode(Cur, first).c, second)
         IN  /\ r.exc = "none"
             /\ r.c.filter = (IF second THEN "error" ELSE "ignore")
             /\ [r.c EXCEPT !.filter = exceptionMode] = Cur

\* in the exceptions mode a set with an unsupported value raised
C18_Witness ==
    /\ exceptionMode = "error" /\ cam = "valid"
    /\ last.op = "set_pyspin_value" /\ last.exc = "EasyPySpinWarning"
    /\ last.ret = NoReturn

----------------------------------------------------------------------------
(* Properties of the snapshot and the restore of readExposureBracketing,      *)
(* checked in every state SpecRestore reaches                                 *)

\* the set_pyspin_value calls a bracketing makes before its restore: three for
\* the trigger, two for the gain, two for each exposure time
SetsBeforeRestore(exposures) == 5 + 2 * Len(exposures)

\* C12: the restore at the end of readExposureBracketing is best-effort: once it
\* has begun, set_pyspin_value is called for each of the six nodes, once, in the
\* order of the snapshot, whether or not a node before could be restored
C12_RestoreBestEffort ==
    \A exposures \in ShortLists :
        \A plan \in Plans(Cur, MaxGrabs(Cur, exposures)) :
            LET r == readExposureBracketing(Cur, exposures, plan)
                before == SetsBeforeRestore(exposures)
            IN  Len(r.c.sets) > before =>
                    SubSeq(r.c.sets, before + 1, Len(r.c.sets)) = node_names_to_change

\* the snapshot of the six nodes, re-applied once and twice
SnapshotTaken == GetAll(Cur, node_names_to_change, 1)

RestoredOnce == SetAll(SnapshotTaken.c, node_names_to_change, SnapshotTaken.out, 1)

RestoredTwice == SetAll(RestoredOnce.c, node_names_to_change, SnapshotTaken.out, 1)

\* C13: the values get_pyspin_value reads of the six nodes, set again with
\* set_pyspin_value in the same order, leave every node as it was, whatever
\* the nodes hold; a second restore changes nothing either
C13_SnapshotRestore ==
    SnapshotTaken.exc = "none" =>
        /\ RestoredOnce.c.nodes = nodes
        /\ RestoredTwice.c.nodes = RestoredOnce.c.nodes
        /\ RestoredTwice.diag = RestoredOnce.diag

\* a bracketing forced the trigger, the exposure and the gain settings of a
\* camera that held none of them, and its restore put back what the snapshot read
C13_Witness ==
    /\ last.op = "readExposureBracketing" /\ last.ret = PyTrue /\ Len(last.out) = 1
    /\ nodes["TriggerSelector"] = 0 /\ nodes["TriggerMode"] = 0 /\ nodes["TriggerSource"] = 1
    /\ nodes["ExposureAuto"] = 2 /\ nodes["GainAuto"] = 2
    /\ nodes["ExposureTime"] # last.out[1].v

----------------------------------------------------------------------------
(* Two objects on two cameras, checked in every step of SpecTwo *)

\* the calls on the second object
CallsOnSecond ==
    {"cap2.open", "cap2.set_pyspin_value", "cap2.get_pyspin_value", "cap2.grab",
     "cap2.setExceptionMode"}

\* how a call ends for its caller: the value returned, the exception, the warnings
Ending(r) == [ret |-> r.ret, exc |-> r.exc, diag |-> r.diag]

\* what the first object shows: its state, and how its failing calls end
Behaviour1 ==
    <<nodes, cam, streaming, pyspin_image, held, auto_software_trigger_execute,
      grabTimeout, average_num,
      Ending(get_pyspin_value(Cur, "hoge")), Ending(set(Cur, "CAP_PROP_ZOOM", PyInt(1)))>>

\* what the second object shows: its state, and how its failing calls end
Behaviour2 ==
    <<cap2,
      Ending(get_pyspin_value(Cur2, "hoge")), Ending(set(Cur2, "CAP_PROP_ZOOM", PyInt(1)))>>

\* C17: a call on one VideoCapture changes neither the state nor the failure
\* behaviour of the VideoCapture on the other camera
C17_Independent ==
    [][/\ last'.op \notin CallsOnSecond => Behaviour2' = Behaviour2
       /\ last'.op \in CallsOnSecond => Behaviour1' = Behaviour1]_vars

----------------------------------------------------------------------------
(* One object shared by two threads, checked in every step of SpecShared *)

\* what a set or a grab acts on
DeviceState ==
    <<nodes, streaming, pyspin_image, held, auto_software_trigger_execute>>

\* C16: while a readExposureBracketing is between its snapshot and its restore,
\* a set or a grab of another caller (a step that is not one of the
\* bracketing) changes nothing on the device
C16_BracketExclusive ==
    [][(bracket.pc # "idle" /\ bracket' = bracket) => DeviceState' = DeviceState]_vars
----------------------------------------------------------------------------
(* mergeHDR, checked in every state of SpecHDR *)

\* every sample of the pixel lies outside the band [Zmin, Zmax]
AllMasked(z) == \A i \in DOMAIN z : ~LessEq(Zmin, z[i]) \/ ~LessEq(z[i], Zmax)

\* the smallest exposure time for which 1 / (time / time_ref) and the sum over
\* the frames stay inside float64: 1e-296
MinTime == Fin(1000, -299)

TimesInRange(times) == \A i \in DOMAIN times : LessEq(MinTime, times[i])

\* C20 (as stated): mergeHDR returns a finite value for every pixel, for all
\* frames with values in [0, 1] and all strictly positive exposure times
C20_Finite == hdr.pc = "returned" => hdr.img_hdr.k = "fin"

\* C20 (amended): mergeHDR returns a finite value for every pixel, for all
\* frames with values in [0, 1] and all exposure times of at least 1e-296,
\* also when every sample of the pixel lies outside [Zmin, Zmax]
C20_FiniteInRange ==
    (hdr.pc = "returned" /\ TimesInRange(hdr.times)) => hdr.img_hdr.k = "fin"

\* a pixel merged from one sample below the band and one above it
C20_Witness ==
    /\ hdr.pc = "returned"
    /\ TimesInRange(hdr.times)
    /\ Len(hdr.imlist) = 2
    /\ AllMasked(hdr.imlist)
    /\ ~LessEq(Zmin, hdr.imlist[1])
    /\ ~LessEq(hdr.imlist[2], Zmax)
    /\ hdr.img_hdr.k = "fin"
    /\ hdr.img_hdr # Zero

\* time / time_ref of frame i of the call
ScaledTime(i) == Div(hdr.times[i], time_ref)

\* every sample of the pixel lies below the band
AllBelow == \A i \in DOMAIN hdr.imlist : ~LessEq(Zmin, hdr.imlist[i])

\* every sample of the pixel lies above the band
AllAbove == \A i \in DOMAIN hdr.imlist : ~LessEq(hdr.imlist[i], Zmax)

\* C21: a pixel below the band (< 0.01) in every sample is merged to exactly
\* 0.01 / max_i(t_i / t_ref), whatever the samples are
C21_UnderExposed ==
    (hdr.pc = "returned" /\ AllBelow) =>
        \E i \in DOMAIN hdr.times :
            /\ \A j \in DOMAIN hdr.times : LessEq(ScaledTime(j), ScaledTime(i))
            /\ hdr.img_hdr = Div(Fin(1000, -5), ScaledTime(i))

\* two different samples below the band, the longer exposure second
C21_Witness ==
    /\ hdr.pc = "returned"
    /\ AllBelow
    /\ Len(hdr.imlist) = 2
    /\ hdr.imlist[1] # hdr.imlist[2]
    /\ ~LessEq(ScaledTime(2), ScaledTime(1))
    /\ hdr.img_hdr.k = "fin"

\* C22: a pixel above the band (> 0.99) in every sample is merged to exactly
\* 0.99 / min_i(t_i / t_ref), whatever the samples are
C22_OverExposed ==
    (hdr.pc = "returned" /\ AllAbove) =>
        \E i \in DOMAIN hdr.times :
            /\ \A j \in DOMAIN hdr.times : LessEq(ScaledTime(i), ScaledTime(j))
            /\ hdr.img_hdr = Div(Fin(9900, -4), ScaledTime(i))

\* two different samples above the band, the shorter exposure second
C22_Witness ==
    /\ hdr.pc = "returned"
    /\ AllAbove
    /\ Len(hdr.imlist) = 2
    /\ hdr.imlist[1] # hdr.imlist[2]
    /\ ~LessEq(ScaledTime(1), ScaledTime(2))
    /\ hdr.img_hdr.k = "fin"

----------------------------------------------------------------------------
(* mergeHDR on the frames of readHDR, checked in every state of SpecMerge *)

\* a and b differ by no more than five units of the last digit kept (every
\* operation of the merge rounds to that digit)
Close(a, b) ==
    \/ a = b
    \/ /\ a.k = "fin" /\ b.k = "fin" /\ a # Zero /\ b # Zero
       /\ \/ a.e = b.e /\ a.m - b.m <= 5 /\ b.m - a.m <= 5
          \/ a.e = b.e + 1 /\ 10 * a.m - b.m <= 50 /\ b.m - 10 * a.m <= 50
          \/ b.e = a.e + 1 /\ 10 * b.m - a.m <= 50 /\ a.m - 10 * b.m <= 50

\* the call merged the 8-bit value v, normalized, with itself at time_ref
RoundTripOf(v) ==
    /\ hdr.pc = "returned"
    /\ \A i \in DOMAIN hdr.imlist :
        hdr.imlist[i] = Div(Round(v, 0), Round(255, 0)) /\ hdr.times[i] = Fin(1000, 1)

\* C23 (as stated): for every 8-bit value v in 0..255, the frame v / 255 merged
\* with itself at one exposure time equal to the reference time gives v / 255
\* back, within tolerance
C23_RoundTrip ==
    \A v \in 0..255 : RoundTripOf(v) => Close(hdr.img_hdr, Div(Round(v, 0), Round(255, 0)))

\* C23 (amended): the round trip holds for every 8-bit value v in 3..252, the
\* values with v / 255 inside [0.01, 0.99]
C23_RoundTripInBand ==
    \A v \in 3..252 : RoundTripOf(v) => Close(hdr.img_hdr, Div(Round(v, 0), Round(255, 0)))

\* the darkest value of the band, merged from two copies of the frame
C23_Witness ==
    /\ RoundTripOf(3)
    /\ Len(hdr.imlist) = 2
    /\ hdr.img_hdr.k = "fin"
    /\ hdr.img_hdr # Fin(1000, -5)

\* the call merged two frames of value 0.5 taken at [t, 2t]
PairMerged ==
    /\ hdr.pc = "returned"
    /\ hdr.imlist = <<Fin(5000, -4), Fin(5000, -4)>>
    /\ hdr.times[2] = Mul(Fin(2000, -3), hdr.times[1])

\* C24 (as stated): two identical frames of value 0.5 taken at [t, 2t], whose
\* weights are equal, merge to 0.5 / (t / t_ref)
C24_PairAtHalf ==
    PairMerged => Close(hdr.img_hdr, Div(Fin(5000, -4), Div(hdr.times[1], Fin(1000, 1))))

\* C24 (amended): they merge to the mean of 0.5 / (t / t_ref) and
\* 0.5 / (2t / t_ref), which is 0.375 / (t / t_ref)
C24_PairMean ==
    PairMerged => Close(hdr.img_hdr, Div(Fin(3750, -4), Div(hdr.times[1], Fin(1000, 1))))

\* t is a quarter of the reference time: the merge is 0.375 / 0.25 = 1.5
C24_Witness ==
    /\ PairMerged
    /\ hdr.times[1] = Fin(2500, 0)
    /\ Close(hdr.img_hdr, Fin(1500, -3))

----------------------------------------------------------------------------
(* MultipleVideoCapture, checked in every step of SpecMulti *)

\* the calls that return a list
ListCalls ==
    {"caps.isOpened", "caps.grab", "caps.retrieve", "caps.read", "caps.set", "caps.get",
     "caps.set_pyspin_value", "caps.get_pyspin_value"}

\* C25: every list-returning call of MultipleVideoCapture returns one result
\* per device, in device order, and caps[0].set changes the first device only
C25_OnePerDevice ==
    [][/\ last'.op \in ListCalls => (last'.exc = "none" /\ Len(last'.ret) = 2)
       /\ last'.op = "set" => cap2' = cap2]_vars

----------------------------------------------------------------------------
(* average_num, checked in every state of SpecAverage *)

\* C26: average_num is a natural number in every state: assigning an int >= 1
\* stores it; assigning anything else (0, a negative int, a float, a bool)
\* emits a diagnostic and leaves the value as it was
C26_AverageNatural ==
    /\ average_num \in Nat \ {0}
    /\ \A v \in AverageValues :
        IF v.k = "int" /\ v.v >= 1
        THEN /\ set_average_num(Cur, v).c = [Cur EXCEPT !.average_num = v.v]
             /\ set_average_num(Cur, v).diag = {}
             /\ set_average_num(Cur, v).exc = "none"
        ELSE /\ set_average_num(Cur, v).c = Cur
             /\ set_average_num(Cur, v).diag = {"average_num must be natural number"}

\* an assignment refused with the diagnostic after 2 was stored
C26_Witness ==
    /\ last.op = "average_num"
    /\ last.diag = {"average_num must be natural number"}
    /\ last.exc = "none"
    /\ average_num = 2

----------------------------------------------------------------------------
(* The grabs of readExposureBracketing, checked in every state of SpecBracket *)

\* C27 (as stated): after every exposure time that is set, the warm-up grabs
\* are issued and discarded before the one frame kept for it
C27_WarmUpEach ==
    cam = "valid" =>
        \A exposures \in ExposureLists :
            readExposureBracketing(Cur, exposures, NoFault).c.grabs =
                Len(exposures) * (DummyImages + 1) * average_num

\* C27 (amended): the warm-up grabs are issued and discarded once, after the
\* first exposure time is set; the frame kept for a later exposure time is the
\* first one grabbed after it is set. An incomplete warm-up frame is discarded
\* with the others; an incomplete frame after them fails the call
C27_WarmUpOnce ==
    cam = "valid" =>
        \A exposures \in ExposureLists \ {<<>>} :
            /\ readExposureBracketing(Cur, exposures, NoFault).c.grabs =
                   (DummyImages + Len(exposures)) * average_num
            /\ \A k \in 1..((DummyImages + Len(exposures)) * average_num) :
                   readExposureBracketing(Cur, exposures, [at |-> k, kind |-> "incomplete"]).ret
                       = V("bool", k <= DummyImages * average_num)

\* a series of two exposure times inside the range came back with its two frames
C27_Witness ==
    /\ last.op = "readExposureBracketing" /\ last.ret = PyTrue /\ last.exc = "none"
    /\ Len(last.out) = 2
    /\ {last.out[1].v, last.out[2].v} = {2, 3}
    /\ last.diag = {}

----------------------------------------------------------------------------
(* The software trigger of grab, checked in every state of SpecCapture *)

\* the settings the claim names, read from the device and the object
TriggerRequired ==
    /\ nodes["TriggerMode"] = PySpinEnum["TriggerMode"]["On"]
    /\ nodes["TriggerSource"] = PySpinEnum["TriggerSource"]["Software"]
    /\ auto_software_trigger_execute

\* C30: a grab on an opened device waits once for an image, and it has fired the
\* software trigger (once) before that wait exactly when TriggerMode is On,
\* TriggerSource is Software and auto_software_trigger_execute is true; in every
\* other case it waits without having fired a trigger
C30_TriggerIffRequired ==
    cam = "valid" =>
        \A plan \in Plans(Cur, 1) :
            /\ Len(grab(Cur, plan).c.log) = 1
            /\ grab(Cur, plan).c.log[1].fired = (IF TriggerRequired THEN 1 ELSE 0)
            /\ grab(Cur, plan).c.pending = 0

\* a grab has returned a triggered frame
C30_Witness ==
    /\ last.op = "grab" /\ last.ret = PyTrue
    /\ TriggerRequired
    /\ streaming /\ pyspin_image.exists

----------------------------------------------------------------------------
(* The settings under which readExposureBracketing grabs, checked in every
   state of SpecRestore *)

\* the waits for an image of one readExposureBracketing call, with the settings
\* each was made under
BracketingGrabs(exposures, plan) == readExposureBracketing(Cur, exposures, plan).c.log

\* series of exposure times below the range of ExposureTime and inside it
TriggerLists == {q \in ExposureLists : Range(q) \subseteq {GetMin("ExposureTime") - 1, GetMin("ExposureTime") + 1}}

\* the settings the claim names, in one entry of the log
Forced(e) ==
    /\ e.nodes["TriggerSelector"] = PySpinEnum["TriggerSelector"]["FrameStart"]
    /\ e.nodes["TriggerMode"] = PySpinEnum["TriggerMode"]["On"]
    /\ e.nodes["TriggerSource"] = PySpinEnum["TriggerSource"]["Software"]
    /\ e.nodes["ExposureAuto"] = PySpinEnum["ExposureAuto"]["Off"]
    /\ e.nodes["GainAuto"] = PySpinEnum["GainAuto"]["Off"]
    /\ e.flag

\* C28: every wait for an image that readExposureBracketing makes is made with
\* TriggerSelector = FrameStart, TriggerMode = On, TriggerSource = Software,
\* ExposureAuto = Off, GainAuto = Off and auto_software_trigger_execute = true,
\* and exactly one software trigger was fired for it before it began
C28_TriggeredGrabs ==
    \A exposures \in TriggerLists :
        \A plan \in Plans(Cur, MaxGrabs(Cur, exposures)) :
            LET grabs == BracketingGrabs(exposures, plan)
            IN  \A k \in 1..Len(grabs) : Forced(grabs[k]) /\ grabs[k].fired = 1

\* a series came back from a camera that was found in free-running mode with
\* both automatic controls on, and is in that mode again
C28_Witness ==
    /\ last.op = "readExposureBracketing" /\ last.ret = PyTrue
    /\ Len(last.out) >= 1
    /\ nodes["TriggerMode"] = PySpinEnum["TriggerMode"]["Off"]
    /\ nodes["GainAuto"] = PySpinEnum["GainAuto"]["Continuous"]
    /\ ~auto_software_trigger_execute

----------------------------------------------------------------------------
(* The gain across readExposureBracketing, checked in every state of SpecRestore *)

\* C29: across a readExposureBracketing call the Gain node keeps the value it
\* had before the call: it has that value at every wait for an image and when
\* the call ends, however it ends; between two waits of the call no node but
\* ExposureTime differs
C29_GainKept ==
    \A exposures \in TriggerLists :
        \A plan \in Plans(Cur, MaxGrabs(Cur, exposures)) :
            LET r == readExposureBracketing(Cur, exposures, plan)
            IN  /\ r.c.nodes["Gain"] = nodes["Gain"]
                /\ \A k \in 1..Len(r.c.log) :
                       /\ r.c.log[k].nodes["Gain"] = nodes["Gain"]
                       /\ \A n \in ValueNodes \ {"ExposureTime"} :
                              r.c.log[k].nodes[n] = r.c.log[1].nodes[n]

\* a series came back from a camera whose gain is not the lowest one, with a
\* frame taken at another exposure time than the one the camera has again
C29_Witness ==
    /\ last.op = "readExposureBracketing" /\ last.ret = PyTrue
    /\ Len(last.out) >= 1
    /\ nodes["Gain"] = GetMax("Gain")
    /\ last.out[1].v # nodes["ExposureTime"]

----------------------------------------------------------------------------
(* The start of the acquisition, checked in every step of SpecCapture *)

\* what one grab does to the acquisition, from the state the object is in
GrabBegins(plan) ==
    LET r == grab(Cur, plan)
    IN  IF cam = "valid"
        THEN r.c.streaming /\ r.c.begins = (IF streaming THEN 0 ELSE 1)
        ELSE r.ret = PyFalse /\ r.c.begins = 0 /\ ~r.c.streaming /\ r.c.log = <<>>

\* C31: a grab on a device that is not open returns False and begins no
\* acquisition; a grab on an opened device that is not streaming begins the
\* acquisition exactly once, a grab on a streaming device never begins it; and
\* the device goes from not streaming to streaming only in a grab (alone or
\* inside a read) on an opened device
C31_BeginsOnce ==
    [][/\ \A plan \in Plans(Cur, 1) : GrabBegins(plan)
       /\ (~streaming /\ streaming') => (last'.op \in {"grab", "read"} /\ cam = "valid")]_vars

\* a grab has returned a frame and the device is streaming
C31_Witness ==
    /\ last.op = "grab" /\ last.ret = PyTrue
    /\ streaming /\ held = 1 /\ pyspin_image.exists
    /\ ~auto_software_trigger_execute

----------------------------------------------------------------------------
(* The merge formula, checked in every state of SpecHDR *)

\* the weight of the statement: the Gaussian weight inside the band, 0 outside
BandWeight(z) == IF Mask(z) THEN Gauss(z) ELSE Zero

RECURSIVE BandWeightSum(_, _)
BandWeightSum(z, i) ==
    IF i > Len(z) THEN Zero ELSE Add(BandWeight(z[i]), BandWeightSum(z, i + 1))

RECURSIVE BandWeightedSum(_, _, _)
BandWeightedSum(z, t, i) ==
    IF i > Len(z) THEN Zero
    ELSE Add(Mul(BandWeight(z[i]), Div(z[i], t[i])), BandWeightedSum(z, t, i + 1))

\* sum_i(w_i * z_i / (t_i / t_ref)) / (sum_i(w_i) + 1e-32)
Radiance(z, times) ==
    Div(BandWeightedSum(z, [i \in DOMAIN times |-> Div(times[i], Fin(1000, 1))], 1),
        Add(BandWeightSum(z, 1), Fin(1000, -35)))

\* C32: for every pixel that is neither below the band in every sample nor
\* above it in every sample, mergeHDR returns
\* sum_i(w_i * z_i / (t_i / t_ref)) / (sum_i(w_i) + 1e-32), with w_i the
\* Gaussian weight inside [0.01, 0.99] and 0 outside: a sample outside the band
\* adds nothing to the result
C32_BandWeighted ==
    (hdr.pc = "returned" /\ ~AllBelow /\ ~AllAbove /\ TimesInRange(hdr.times)) =>
        Close(hdr.img_hdr, Radiance(hdr.imlist, hdr.times))

----------------------------------------------------------------------------
(* set(CAP_PROP_EXPOSURE) and set(CAP_PROP_GAIN), checked in every state of
   SpecManual *)

AutoNode(propId) == IF propId = "CAP_PROP_EXPOSURE" THEN "ExposureAuto" ELSE "GainAuto"

ManualNode(propId) == IF propId = "CAP_PROP_EXPOSURE" THEN "ExposureTime" ELSE "Gain"

\* value == -1
IsMinusOne(v) == v.k \in {"int", "float"} /\ v.v = -1

\* the device takes a write of the node
Takes(n) == cam = "valid" /\ access[n] \in {"RW", "WO"}

\* the device takes v as the value of the (float) node n
TakesValue(n, v) == Takes(n) /\ v.k \in {"int", "float"}

\* v brought into the range of n
Clipped(n, v) == IF v < GetMin(n) THEN GetMin(n) ELSE IF v > GetMax(n) THEN GetMax(n) ELSE v

\* C35 (as stated): with a value other than -1, set switches the automatic
\* control Off and then sets the value node to the clipped value, attempts the
\* second step whatever the first did, and returns True exactly when both
\* succeeded; with -1 it switches the automatic control to Continuous and
\* leaves the value node alone. For CAP_PROP_EXPOSURE and for CAP_PROP_GAIN
C35_BothSteps ==
    \A propId \in ManualIds, v \in ManualValues :
        LET r == set(Cur, propId, v)
            auto == AutoNode(propId)
            node == ManualNode(propId)
        IN  IF IsMinusOne(v)
            THEN /\ r.c.sets = <<auto>>
                 /\ r.c.nodes[node] = nodes[node]
                 /\ r.ret = V("bool", Takes(auto))
                 /\ Takes(auto) => r.c.nodes[auto] = PySpinEnum[auto]["Continuous"]
            ELSE /\ r.c.sets = <<auto, node>>
                 /\ r.ret = V("bool", Takes(auto) /\ TakesValue(node, v))
                 /\ Takes(auto) => r.c.nodes[auto] = PySpinEnum[auto]["Off"]
                 /\ TakesValue(node, v) => r.c.nodes[node] = Clipped(node, v.v)

\* C35 (amended): the same when the exceptions mode is off. When it is on, a
\* step that fails, and a value that has to be clipped, raise EasyPySpinWarning
\* out of set: a failed first step is then not followed by the second, and a
\* value outside the range is not written
C35_BothStepsUnlessRaised ==
    \A propId \in ManualIds, v \in ManualValues :
        LET r == set(Cur, propId, v)
            auto == AutoNode(propId)
            node == ManualNode(propId)
            raised == r.exc = "EasyPySpinWarning" /\ r.ret = NoReturn
            returned(b) == r.exc = "none" /\ r.ret = V("bool", b)
        IN  /\ r.c.nodes[auto] =
                  (IF ~Takes(auto) THEN nodes[auto]
                   ELSE PySpinEnum[auto][IF IsMinusOne(v) THEN "Continuous" ELSE "Off"])
            /\ IF IsMinusOne(v)
               THEN /\ r.c.sets = <<auto>>
                    /\ r.c.nodes[node] = nodes[node]
                    /\ IF exceptionMode = "error" /\ ~Takes(auto)
                       THEN raised ELSE returned(Takes(auto))
               ELSE IF exceptionMode # "error"
               THEN /\ r.c.sets = <<auto, node>>
                    /\ returned(Takes(auto) /\ TakesValue(node, v))
                    /\ r.c.nodes[node] =
                          (IF TakesValue(node, v) THEN Clipped(node, v.v) ELSE nodes[node])
               ELSE IF ~Takes(auto)
               THEN raised /\ r.c.sets = <<auto>> /\ r.c.nodes[node] = nodes[node]
               ELSE IF ~TakesValue(node, v) \/ Clipped(node, v.v) # v.v
               THEN raised /\ r.c.sets = <<auto, node>> /\ r.c.nodes[node] = nodes[node]
               ELSE /\ returned(TRUE) /\ r.c.sets = <<auto, node>>
                    /\ r.c.nodes[node] = v.v

\* the exposure time was set on a camera whose ExposureAuto is locked: set
\* returned False and the exposure time is the one asked for
C35_Witness ==
    /\ last.op = "set" /\ last.ret = PyFalse /\ last.exc = "none"
    /\ last.diag = {"not writable"}
    /\ access["ExposureAuto"] = "RO"
    /\ nodes["ExposureAuto"] = PySpinEnum["ExposureAuto"]["Continuous"]
    /\ nodes["ExposureTime"] = 3

----------------------------------------------------------------------------
(* The exposure series of readHDR, checked in every state of SpecReadHDR *)

\* ratio > 1.0
AboveOne(ratio) == ~LessEq(ratio, Fin(1000, -3))

\* a < b
Less(a, b) == LessEq(a, b) /\ a # b

\* C40: on an opened camera the loop that counts the shots is left for every
\* ratio above 1 and every t_min and t_max, with the first num from 2 on for
\* which t_max > t_min * ratio ** num is false (or with the OverflowError of
\* ratio ** num); for a ratio of 1 or less no pass is made and num is 2
C40_LoopEnds ==
    cam = "valid" =>
        \A t_min \in HDRTimes, t_max \in HDRTimes, ratio \in HDRRatios :
            LET num == ShotsOf(t_min, t_max, ratio)
                tmin == ClipExposure(t_min)
                tmax == ClipExposure(t_max)
            IN  /\ num.k \in {"int", "OverflowError"}
                /\ ~AboveOne(ratio) => num = Shots(2)
                /\ (AboveOne(ratio) /\ num.k = "int") =>
                       /\ num.m >= 2 /\ num.m - 2 <= MaxShots
                       /\ LessEq(tmax, Mul(tmin, Power(ratio, num.m)))
                       /\ \A k \in 2..(num.m - 1) : ~LessEq(tmax, Mul(tmin, Power(ratio, k)))

\* a readHDR over the whole range of ExposureTime with a ratio of 1.1 took
\* five shots and merged them
C40_Witness ==
    /\ last.op = "readHDR" /\ last.ret = PyTrue /\ last.exc = "none"
    /\ hdr.pc = "returned" /\ Len(hdr.times) = 5
    /\ hdr.img_hdr = last.out

\* C33: for all t_min, t_max and every ratio above 1, the exposure times of
\* readHDR are at least 2, run from clip(t_min) to clip(t_max), and each is at
\* most ratio times the one before it
C33_WithinRatio ==
    cam = "valid" =>
        \A t_min \in HDRTimes, t_max \in HDRTimes, ratio \in HDRRatios :
            AboveOne(ratio) =>
                LET s == Shooting[t_min, t_max, ratio]
                IN  /\ s.num.k = "int" /\ s.num.m >= 2 /\ Len(s.times) = s.num.m
                    /\ s.times[1] = ClipExposure(t_min)
                    /\ s.times[Len(s.times)] = ClipExposure(t_max)
                    /\ \A k \in 1..(Len(s.times) - 1) :
                           LessEq(s.times[k + 1], Mul(s.times[k], ratio))

\* C34: the exposure times readHDR hands to readExposureBracketing are strictly
\* increasing and strictly positive, for every t_min, t_max and ratio
C34_Increasing ==
    cam = "valid" =>
        \A t_min \in HDRTimes, t_max \in HDRTimes, ratio \in HDRRatios :
            LET s == Shooting[t_min, t_max, ratio]
            IN  /\ \A k \in 1..Len(s.times) : Less(Zero, s.times[k])
                /\ \A k \in 1..(Len(s.times) - 1) : Less(s.times[k], s.times[k + 1])

\* C36: a readHDR that returns, with the frames or with (False, None), leaves
\* Gamma and GammaEnable at the values they had before the call
C36_GammaKept ==
    \A t_min \in HDRTimes, t_max \in HDRTimes, ratio \in HDRRatios :
        \A plan \in Plans(Cur, DummyImages + Len(Shooting[t_min, t_max, ratio].times)) :
            LET series == Shooting[t_min, t_max, ratio]
                r == readHDR(Cur, series, plan, [i \in DOMAIN series.times |-> 64])
            IN  r.exc = "none" =>
                    /\ r.c.nodes["Gamma"] = nodes["Gamma"]
                    /\ r.c.nodes["GammaEnable"] = nodes["GammaEnable"]

----------------------------------------------------------------------------
(* readExposureBracketing and the acquisition, checked in every state        *)
(* SpecBracket reaches, for every exposure list and every delivery           *)

\* C37: readExposureBracketing calls EndAcquisition only while the camera is
\* streaming, and after a bracket that returned True the camera is not
\* streaming, for every exposure list, the empty one included
C37_EndsWhileStreaming ==
    \A exposures \in ExposureLists :
        \A plan \in Plans(Cur, MaxGrabs(Cur, exposures)) :
            LET r == readExposureBracketing(Cur, exposures, plan)
            IN  /\ \A k \in 1..Len(r.c.ends) : r.c.ends[k]
                /\ (r.exc = "none" /\ r.ret = PyTrue) => ~r.c.streaming

----------------------------------------------------------------------------
(* VideoCaptureEX.read and average_num, checked in every state SpecAverage   *)
(* reaches, for every delivery of the frames                                 *)

\* C38: read() with average_num = n returns True only after n grabs that
\* succeeded, each followed by its retrieve, and the frame returned is the mean
\* of n frames; the first grab that fails makes it return (False, None) at once,
\* with no grab after it
C38_AllOrNothing ==
    \A plan \in Plans(Cur, average_num) :
        LET r == readEX(Cur, plan)
        IN  /\ r.exc = "none"
            /\ IF plan = NoFault
               THEN r.ret = PyTrue /\ r.c.grabs = average_num /\ r.out.n = average_num
               ELSE r.ret = PyFalse /\ r.out = None /\ r.c.grabs = plan.at

----------------------------------------------------------------------------
(* SynchronizedVideoCapture.read, checked in every state SpecSync reaches    *)

\* C39: a read() of the synchronized pair with the primary in software-trigger
\* mode fires the software trigger of the primary exactly once for the one frame
\* it waits for on the primary, and none on the secondary, which waits for one
\* frame as well
C39_OneTrigger ==
    TriggerSoftwareAvailable(Cur) =>
        \A p1 \in Plans(Cur, 1), p2 \in Plans(Cur2, 1) :
            LET m == syncRead(Cur, Cur2, p1, p2)
            IN  /\ m.exc = "none"
                /\ Len(m.c1.log) = 1 /\ m.c1.log[1].fired = 1
                /\ Len(m.c2.log) = 1 /\ m.c2.log[1].fired = 0

====
